---- MODULE Spec2Model ----
(***************************************************************************)
(* Model of the swatchbook colour core: the hex / RGB / HSL / OKLCH codec, *)
(* the gamut estimator, the palette generator and the gradient generators  *)
(* of lib/color-utils (OKLCH module and the legacy HSL module).            *)
(*                                                                         *)
(* Numbers.  JavaScript doubles are modelled as fixed-point integers with  *)
(* six decimals (Scale units per 1.0).  Hues are degrees in the same       *)
(* fixed-point, so 360 degrees is 360 * Scale.  Products and quotients are *)
(* computed in two limbs so that every intermediate fits 32 bits.  NaN is  *)
(* modelled by the separate value NaN, which poisons every arithmetic      *)
(* operation it enters and makes every comparison false, as in IEEE 754.   *)
(*                                                                         *)
(* Strings are sequences of one-character strings, so that the regular     *)
(* expressions of the parsers can be evaluated character by character.     *)
(***************************************************************************)
EXTENDS Integers, Sequences, FiniteSets, TLC

(***************************************************************************)
(* Bounds of the model.                                                    *)
(***************************************************************************)
MaxCount == 5
MaxSteps == 6
\* one count beyond the 20 colours the page allows
LargeCount == 27
\* the swatch clicks and palette edits followed on the page
MaxEdits == 1
\* the timers the ThemeSwitcher starts
MaxTimers == 5
\* the longest palette laid out on the texture: 20 colours and one added
MaxColors == 21

Scale == 1000 * 1000
Limb == 1000
Deg(n) == n * Scale
Frac(n, d) == (n * Scale) \div d

\* const v = value; Body(v): the value is computed once and then named
Const(value, Body(_)) == CHOOSE result \in {Body(v) : v \in {value}} : TRUE

(***************************************************************************)
(* Fixed-point arithmetic.                                                 *)
(***************************************************************************)
NaN == -(2000 * Scale)
IsNaN(x) == x = NaN

Abs(x) == IF x < 0 THEN -x ELSE x
Sgn(x) == IF x < 0 THEN -1 ELSE 1

MulU(a, b) ==
  LET ah == a \div Limb
      al == a % Limb
      bh == b \div Limb
      bl == b % Limb
  IN  ah * bh + (ah * bl + al * bh + (Limb \div 2) + (al * bl) \div Limb) \div Limb

Mul(a, b) == Sgn(a) * Sgn(b) * MulU(Abs(a), Abs(b))

DivU(a, b) ==
  LET q1 == (a * Limb) \div b
      r1 == (a * Limb) % b
  IN  q1 * Limb + (r1 * Limb + b \div 2) \div b

Div(a, b) == Sgn(a) * Sgn(b) * DivU(Abs(a), Abs(b))

\* Math.min / Math.max / Math.abs on two doubles: NaN if either is NaN.
MathMin(a, b) == IF IsNaN(a) \/ IsNaN(b) THEN NaN ELSE IF a < b THEN a ELSE b
MathMax(a, b) == IF IsNaN(a) \/ IsNaN(b) THEN NaN ELSE IF a > b THEN a ELSE b
MathAbs(a) == IF IsNaN(a) THEN NaN ELSE Abs(a)
Add(a, b) == IF IsNaN(a) \/ IsNaN(b) THEN NaN ELSE a + b
Sub(a, b) == IF IsNaN(a) \/ IsNaN(b) THEN NaN ELSE a - b
Times(a, b) == IF IsNaN(a) \/ IsNaN(b) THEN NaN ELSE Mul(a, b)
Less(a, b) == IF IsNaN(a) \/ IsNaN(b) THEN FALSE ELSE a < b
Greater(a, b) == IF IsNaN(a) \/ IsNaN(b) THEN FALSE ELSE a > b
LessEq(a, b) == IF IsNaN(a) \/ IsNaN(b) THEN FALSE ELSE a <= b

\* JavaScript's % on doubles: the remainder has the sign of the dividend.
JsRem(a, m) == IF IsNaN(a) THEN NaN ELSE IF a >= 0 THEN a % m ELSE -((-a) % m)

\* i / n for two integers held in doubles: 0/0 is NaN.
Quotient(i, n) ==
  IF n = 0 THEN NaN
  ELSE IF n > 0 THEN (2 * i * Scale + n) \div (2 * n)
  ELSE -((2 * i * Scale + (-n)) \div (2 * (-n)))

(***************************************************************************)
(* Characters and hexadecimal digits.                                      *)
(***************************************************************************)
LowerDigits == <<"0", "1", "2", "3", "4", "5", "6", "7", "8", "9", "a", "b", "c", "d", "e", "f">>
UpperDigits == <<"0", "1", "2", "3", "4", "5", "6", "7", "8", "9", "A", "B", "C", "D", "E", "F">>

\* [a-f\d] under the i flag, and [0-9a-f] under the i flag.
IsHexDigit(ch) == \E v \in 1..16 : LowerDigits[v] = ch \/ UpperDigits[v] = ch
\* parseInt(digit, 16)
DigitValue(ch) == (CHOOSE v \in 1..16 : LowerDigits[v] = ch \/ UpperDigits[v] = ch) - 1
\* String.prototype.toLowerCase, one character at a time
UpperLetters == <<"A", "B", "C", "D", "E", "F", "G", "H", "I", "J", "K", "L", "M", "N", "O", "P", "Q", "R", "S", "T", "U", "V", "W", "X", "Y", "Z">>
LowerLetters == <<"a", "b", "c", "d", "e", "f", "g", "h", "i", "j", "k", "l", "m", "n", "o", "p", "q", "r", "s", "t", "u", "v", "w", "x", "y", "z">>
ToLowerChar(ch) ==
  IF \E v \in 1..26 : UpperLetters[v] = ch
  THEN LowerLetters[CHOOSE v \in 1..26 : UpperLetters[v] = ch]
  ELSE ch
ToLowerCase(s) == [k \in 1..Len(s) |-> ToLowerChar(s[k])]

AllHexDigits(s) == \A k \in 1..Len(s) : IsHexDigit(s[k])
\* the part of the string after the optional leading '#' of  ^#?( ... )$
StripHash(s) == IF Len(s) > 0 /\ s[1] = "#" THEN Tail(s) ELSE s
\* parseInt(two hex digits, 16)
ParsePair(s, k) == 16 * DigitValue(s[k]) + DigitValue(s[k + 1])

\* n.toString(16) for an integer 0 <= n, most significant digit first
RECURSIVE ToString16(_)
ToString16(n) ==
  IF n < 16 THEN <<LowerDigits[n + 1]>> ELSE Append(ToString16(n \div 16), LowerDigits[(n % 16) + 1])

(***************************************************************************)
(* Legacy module: hexToRgb and rgbToHex.                                   *)
(***************************************************************************)
InvalidHexColor == "Invalid hex color"
Throw(msg) == [ok |-> FALSE, error |-> msg]

\* /^#?([a-f\d]{2})([a-f\d]{2})([a-f\d]{2})$/i
LegacyHexMatches(hex) ==
  LET body == StripHash(hex)
  IN  Len(body) = 6 /\ AllHexDigits(body)

LegacyHexToRgb(hex) ==
  IF ~LegacyHexMatches(hex)
  THEN Throw(InvalidHexColor)
  ELSE LET body == StripHash(hex)
       IN  [ok |-> TRUE, r |-> ParsePair(body, 1), g |-> ParsePair(body, 3), b |-> ParsePair(body, 5)]

\* the inner toHex of rgbToHex, for an integer channel value
LegacyToHex(n) ==
  LET hex == ToString16(n)
  IN  IF Len(hex) = 1 THEN <<"0">> \o hex ELSE hex

LegacyRgbToHex(rgb) ==
  <<"#">> \o LegacyToHex(rgb.r) \o LegacyToHex(rgb.g) \o LegacyToHex(rgb.b)

(***************************************************************************)
(* culori: parse.  The hexadecimal, named-colour and 'transparent' parsers *)
(* are modelled; the named-colour table is cut down to three entries.      *)
(***************************************************************************)
NamedColors ==
  { [name |-> <<"r", "e", "d">>, r |-> 255, g |-> 0, b |-> 0],
    [name |-> <<"t", "a", "n">>, r |-> 210, g |-> 180, b |-> 140],
    [name |-> <<"t", "e", "a", "l">>, r |-> 0, g |-> 128, b |-> 128] }

\* /^#?([0-9a-f]{8}|[0-9a-f]{6}|[0-9a-f]{4}|[0-9a-f]{3})$/i
CuloriHexMatches(color) ==
  LET body == StripHash(color)
  IN  Len(body) \in {3, 4, 6, 8} /\ AllHexDigits(body)

\* parseNumber: 3 and 4 digits double each digit, 6 and 8 digits read pairs;
\* the alpha digits of the 4- and 8-digit forms do not reach the channels.
CuloriParseHex(color) ==
  LET body == StripHash(color)
  IN  IF Len(body) \in {3, 4}
      THEN [r |-> 17 * DigitValue(body[1]), g |-> 17 * DigitValue(body[2]), b |-> 17 * DigitValue(body[3])]
      ELSE [r |-> ParsePair(body, 1), g |-> ParsePair(body, 3), b |-> ParsePair(body, 5)]

CuloriParseNamed(color) ==
  LET e == CHOOSE e \in NamedColors : e.name = ToLowerCase(color)
  IN  [r |-> e.r, g |-> e.g, b |-> e.b]

IsNamedColor(color) == \E e \in NamedColors : e.name = ToLowerCase(color)
IsTransparent(color) ==
  ToLowerCase(color) = <<"t", "r", "a", "n", "s", "p", "a", "r", "e", "n", "t">>

\* parse(color): an sRGB colour with 8-bit channels, or undefined
Undefined == [defined |-> FALSE]
CuloriParse(color) ==
  IF CuloriHexMatches(color)
  THEN [defined |-> TRUE] @@ CuloriParseHex(color)
  ELSE IF IsNamedColor(color)
  THEN [defined |-> TRUE] @@ CuloriParseNamed(color)
  ELSE IF IsTransparent(color)
  THEN [defined |-> TRUE, r |-> 0, g |-> 0, b |-> 0]
  ELSE Undefined

(***************************************************************************)
(* culori: sRGB <-> OKLCH.  The transfer function of sRGB is tabulated for *)
(* the 256 channel values in one direction and by its 255 rounding         *)
(* thresholds in the other; cube roots are found by bisection and the      *)
(* trigonometric functions by CORDIC iterations.                           *)
(***************************************************************************)
LinearTable ==
  <<
    0, 304, 607, 911, 1214, 1518, 1821, 2125,
    2428, 2732, 3035, 3347, 3677, 4025, 4391, 4777,
    5182, 5605, 6049, 6512, 6995, 7499, 8023, 8568,
    9134, 9721, 10330, 10960, 11612, 12286, 12983, 13702,
    14444, 15209, 15996, 16807, 17642, 18500, 19382, 20289,
    21219, 22174, 23153, 24158, 25187, 26241, 27321, 28426,
    29557, 30713, 31896, 33105, 34340, 35601, 36889, 38204,
    39546, 40915, 42311, 43735, 45186, 46665, 48172, 49707,
    51269, 52861, 54480, 56128, 57805, 59511, 61246, 63010,
    64803, 66626, 68478, 70360, 72272, 74214, 76185, 78187,
    80220, 82283, 84376, 86500, 88656, 90842, 93059, 95307,
    97587, 99899, 102242, 104616, 107023, 109462, 111932, 114435,
    116971, 119538, 122139, 124772, 127438, 130136, 132868, 135633,
    138432, 141263, 144128, 147027, 149960, 152926, 155926, 158961,
    162029, 165132, 168269, 171441, 174647, 177888, 181164, 184475,
    187821, 191202, 194618, 198069, 201556, 205079, 208637, 212231,
    215861, 219526, 223228, 226966, 230740, 234551, 238398, 242281,
    246201, 250158, 254152, 258183, 262251, 266356, 270498, 274677,
    278894, 283149, 287441, 291771, 296138, 300544, 304987, 309469,
    313989, 318547, 323143, 327778, 332452, 337164, 341914, 346704,
    351533, 356400, 361307, 366253, 371238, 376262, 381326, 386429,
    391572, 396755, 401978, 407240, 412543, 417885, 423268, 428690,
    434154, 439657, 445201, 450786, 456411, 462077, 467784, 473531,
    479320, 485150, 491021, 496933, 502886, 508881, 514918, 520996,
    527115, 533276, 539479, 545724, 552011, 558340, 564712, 571125,
    577580, 584078, 590619, 597202, 603827, 610496, 617207, 623960,
    630757, 637597, 644480, 651406, 658375, 665387, 672443, 679542,
    686685, 693872, 701102, 708376, 715694, 723055, 730461, 737910,
    745404, 752942, 760525, 768151, 775822, 783538, 791298, 799103,
    806952, 814847, 822786, 830770, 838799, 846873, 854993, 863157,
    871367, 879622, 887923, 896269, 904661, 913099, 921582, 930111,
    938686, 947307, 955973, 964686, 973445, 982251, 991102, 1000000
  >>

GammaThreshold ==
  <<
    152, 455, 759, 1062, 1366, 1669, 1973, 2276,
    2580, 2884, 3188, 3509, 3848, 4206, 4582, 4977,
    5391, 5825, 6278, 6751, 7245, 7759, 8293, 8848,
    9425, 10023, 10642, 11283, 11947, 12632, 13340, 14070,
    14823, 15600, 16399, 17222, 18068, 18938, 19832, 20751,
    21693, 22661, 23652, 24669, 25711, 26778, 27870, 28988,
    30132, 31301, 32497, 33719, 34967, 36242, 37544, 38872,
    40227, 41610, 43020, 44457, 45922, 47415, 48936, 50484,
    52062, 53667, 55301, 56963, 58655, 60375, 62124, 63903,
    65711, 67548, 69415, 71312, 73239, 75196, 77183, 79200,
    81247, 83326, 85434, 87574, 89745, 91946, 94179, 96443,
    98739, 101066, 103425, 105816, 108238, 110693, 113180, 115699,
    118250, 120835, 123451, 126101, 128783, 131498, 134247, 137028,
    139843, 142692, 145574, 148489, 151439, 154422, 157439, 160491,
    163576, 166696, 169851, 173040, 176264, 179522, 182815, 186143,
    189507, 192905, 196339, 199808, 203313, 206853, 210429, 214041,
    217689, 221373, 225092, 228848, 232641, 236470, 240335, 244237,
    248175, 252151, 256163, 260212, 264298, 268422, 272583, 276781,
    281017, 285290, 289601, 293950, 298336, 302761, 307223, 311724,
    316263, 320840, 325456, 330110, 334803, 339534, 344304, 349113,
    353961, 358849, 363775, 368740, 373745, 378789, 383873, 388996,
    394159, 399362, 404604, 409886, 415209, 420571, 425974, 431417,
    436900, 442424, 447988, 453593, 459239, 464925, 470653, 476421,
    482230, 488080, 493972, 499905, 505879, 511894, 517951, 524050,
    530191, 536373, 542597, 548863, 555171, 561521, 567913, 574347,
    580824, 587343, 593905, 600509, 607156, 613846, 620578, 627353,
    634172, 641033, 647937, 654885, 661876, 668910, 675987, 683108,
    690273, 697481, 704733, 712029, 719369, 726752, 734180, 741652,
    749168, 756728, 764332, 771981, 779674, 787412, 795195, 803022,
    810894, 818811, 826772, 834779, 842830, 850927, 859069, 867256,
    875489, 883767, 892091, 900460, 908874, 917335, 925841, 934393,
    942990, 951634, 960324, 969060, 977842, 986671, 995545
  >>

AtanTable ==
  <<
    45000000, 26565051, 14036243, 7125016, 3576334, 1789911,
    895174, 447614, 223811, 111906, 55953, 27976,
    13988, 6994, 3497, 1749, 874, 437,
    219, 109, 55, 27, 14, 7
  >>

\* convertRgbToLrgb on one 8-bit channel: ((c + 0.055) / 1.055) ^ 2.4 or c / 12.92
Linearize(v) == LinearTable[v + 1]

\* Math.round(clamp(gamma(x), 0, 1) * 255): the number of thresholds at or below x
Fixup(x) == Cardinality({k \in 1..255 : GammaThreshold[k] <= x})

Cube(y) == Mul(Mul(y, y), y)

RECURSIVE CbrtSearch(_, _, _)
CbrtSearch(x, lo, hi) ==
  IF hi - lo <= 1
  THEN IF x - Cube(lo) <= Cube(hi) - x THEN lo ELSE hi
  ELSE LET mid == (lo + hi) \div 2
       IN  IF Cube(mid) <= x THEN CbrtSearch(x, mid, hi) ELSE CbrtSearch(x, lo, mid)

\* Math.cbrt for 0 <= x <= 8
Cbrt(x) == IF x = 0 THEN 0 ELSE CbrtSearch(x, 0, 2 * Scale)

CordicSteps == Len(AtanTable)
\* 1 / prod sqrt(1 + 4^-i), in units of 10^-9
CordicGainInverse == 607252935

\* vectoring mode: rotates (x, y), x >= 0, onto the positive x axis and
\* returns <<gain * length, angle>>
RECURSIVE CordicVector(_, _, _, _, _)
CordicVector(x, y, z, i, d) ==
  IF i > CordicSteps THEN <<x, z>>
  ELSE IF y >= 0
  THEN CordicVector(x + y \div d, y - x \div d, z + AtanTable[i], i + 1, 2 * d)
  ELSE CordicVector(x - y \div d, y + x \div d, z - AtanTable[i], i + 1, 2 * d)

\* rotation mode: rotates (x, y) by the angle z, |z| <= 90 degrees
RECURSIVE CordicRotate(_, _, _, _, _)
CordicRotate(x, y, z, i, d) ==
  IF i > CordicSteps THEN <<x, y>>
  ELSE IF z >= 0
  THEN CordicRotate(x - y \div d, y + x \div d, z - AtanTable[i], i + 1, 2 * d)
  ELSE CordicRotate(x + y \div d, y - x \div d, z + AtanTable[i], i + 1, 2 * d)

RoundDiv(x, d) == Sgn(x) * ((Abs(x) + d \div 2) \div d)

\* <<Math.sqrt(a * a + b * b), normalizeHue(Math.atan2(b, a) * 180 / Math.PI)>>
Polar(a, b) ==
  LET flip == a < 0
  IN  IF a = 0 /\ b = 0 THEN <<0, 0>>
      ELSE Const(CordicVector(Limb * Abs(a), IF flip THEN -(Limb * b) ELSE Limb * b, 0, 1, 1),
                 LAMBDA v :
                   <<MulU(RoundDiv(v[1], Limb), RoundDiv(CordicGainInverse, Limb)),
                     ((IF flip THEN v[2] + Deg(180) ELSE v[2]) + Deg(360)) % Deg(360)>>)

\* <<Math.cos(h / 180 * Math.PI), Math.sin(h / 180 * Math.PI)>>
CosSin(h) ==
  LET n == h % Deg(360)
      q == n \div Deg(90)
  IN  Const(CordicRotate(CordicGainInverse, 0, n % Deg(90), 1, 1), LAMBDA v :
        LET c == RoundDiv(v[1], Limb)
            s == RoundDiv(v[2], Limb)
        IN  CASE q = 0 -> <<c, s>>
              [] q = 1 -> <<-s, c>>
              [] q = 2 -> <<-c, -s>>
              [] OTHER -> <<s, -c>>)

\* convertRgbToLrgb followed by convertLrgbToOklab; equal channels give a = b = 0
convertRgbToOklab(rgb) ==
  LET r == Linearize(rgb.r)
      g == Linearize(rgb.g)
      b == Linearize(rgb.b)
      gray == rgb.r = rgb.b /\ rgb.b = rgb.g
  IN  Const(<<Cbrt(Mul(412221, r) + Mul(536333, g) + Mul(51446, b)),
              Cbrt(Mul(211903, r) + Mul(680700, g) + Mul(107397, b)),
              Cbrt(Mul(88302, r) + Mul(281719, g) + Mul(629979, b))>>,
            LAMBDA lms :
              [l |-> Mul(210454, lms[1]) + Mul(793618, lms[2]) - Mul(4072, lms[3]),
               a |-> IF gray THEN 0
                     ELSE Mul(1977999, lms[1]) - Mul(2428592, lms[2]) + Mul(450594, lms[3]),
               b |-> IF gray THEN 0
                     ELSE Mul(25904, lms[1]) + Mul(782772, lms[2]) - Mul(808676, lms[3])])

\* convertLabToLch: the hue is defined only for a chroma other than 0
convertLabToLch(lab) ==
  Const(Polar(lab.a, lab.b),
        LAMBDA p : [l |-> lab.l, c |-> p[1], hDefined |-> p[1] # 0, h |-> p[2]])

convertRgbToOklch(rgb) == Const(convertRgbToOklab(rgb), LAMBDA lab : convertLabToLch(lab))

\* '#' + (1 << 24 | r << 16 | g << 8 | b).toString(16).slice(1)
SerializeHex(r, g, b) == <<"#">> \o Tail(ToString16(16777216 + 65536 * r + 256 * g + b))

\* convertLchToLab: a chroma of 0 or NaN gives a = b = 0
convertLchToLab(lch) ==
  IF IsNaN(lch.c) \/ lch.c = 0
  THEN [l |-> lch.l, a |-> 0, b |-> 0]
  ELSE IF IsNaN(lch.h)
  THEN [l |-> lch.l, a |-> NaN, b |-> NaN]
  ELSE Const(CosSin(lch.h), LAMBDA cs :
         [l |-> lch.l, a |-> Mul(lch.c, cs[1]), b |-> Mul(lch.c, cs[2])])

\* convertOklabToLrgb, then the sRGB transfer function and fixup on each channel
convertOklabToRgb8(lab) ==
  Const(<<Cube(lab.l + Mul(396338, lab.a) + Mul(215804, lab.b)),
          Cube(lab.l - Mul(105561, lab.a) - Mul(63854, lab.b)),
          Cube(lab.l - Mul(89484, lab.a) - Mul(1291486, lab.b))>>,
        LAMBDA lms :
          [r |-> Fixup(Mul(4076742, lms[1]) - Mul(3307712, lms[2]) + Mul(230970, lms[3])),
           g |-> Fixup(Mul(2609757, lms[2]) - Mul(1268438, lms[1]) - Mul(341319, lms[3])),
           b |-> Fixup(Mul(1707615, lms[3]) - Mul(4196, lms[1]) - Mul(703419, lms[2]))])

\* formatHex of an OKLCH colour; a NaN channel is serialized as 0
formatHex(lch) ==
  Const(convertLchToLab(lch), LAMBDA lab :
    IF IsNaN(lab.l) \/ IsNaN(lab.a) \/ IsNaN(lab.b)
    THEN SerializeHex(0, 0, 0)
    ELSE Const(convertOklabToRgb8(lab), LAMBDA rgb : SerializeHex(rgb.r, rgb.g, rgb.b)))

(***************************************************************************)
(* OKLCH module: hexToOklch, oklchToHex, getMaxChroma.                     *)
(***************************************************************************)
hexToOklch(hex) ==
  Const(CuloriParse(hex), LAMBDA color :
    IF ~color.defined
    THEN Throw(InvalidHexColor)
    ELSE Const(convertRgbToOklch(color), LAMBDA oklchColor :
           [ok |-> TRUE,
            l |-> oklchColor.l,
            c |-> oklchColor.c,
            h |-> IF oklchColor.hDefined THEN oklchColor.h ELSE 0]))

oklchToHex_HueDropped(oklchColor) ==
  formatHex([l |-> oklchColor.l, c |-> oklchColor.c, h |-> 0])

oklchToHex(oklchColor) == formatHex(oklchColor)

\* the value of a hue that is undefined or null
UndefinedHue == -(2100 * Scale)

getMaxChroma_BandsSwapped(l, h) ==
  IF h = UndefinedHue THEN 0
  ELSE IF Less(l, Frac(2, 10)) \/ Greater(l, Frac(95, 100)) THEN Frac(25, 100)
  ELSE IF Less(l, Frac(4, 10)) \/ Greater(l, Frac(8, 10)) THEN Frac(1, 10)
  ELSE Frac(3, 10)

getMaxChroma(l, h) ==
  IF h = UndefinedHue THEN 0
  ELSE IF Less(l, Frac(2, 10)) \/ Greater(l, Frac(95, 100)) THEN Frac(1, 10)
  ELSE IF Less(l, Frac(4, 10)) \/ Greater(l, Frac(8, 10)) THEN Frac(25, 100)
  ELSE Frac(3, 10)


(***************************************************************************)
(* OKLCH module: hexToRgb and rgbToHex.  hexToRgb goes through culori's    *)
(* formatRgb and reads the channels back out of the "rgb(r, g, b)" text.   *)
(***************************************************************************)
\* the alpha of the parsed colour is defined and below 1
AlphaBelowOne(color) ==
  LET body == StripHash(color)
  IN  IF CuloriHexMatches(color)
      THEN \/ Len(body) = 4 /\ DigitValue(body[4]) < 15
           \/ Len(body) = 8 /\ ParsePair(body, 7) < 255
      ELSE ~IsNamedColor(color) /\ IsTransparent(color)

\* Number.prototype.toString() of a non-negative integer
RECURSIVE ToString10(_)
ToString10(n) ==
  IF n < 10 THEN <<LowerDigits[n + 1]>> ELSE Append(ToString10(n \div 10), LowerDigits[(n % 10) + 1])

\* culori formatRgb: "rgb(r, g, b)", or "rgba(r, g, b, a)" for an alpha below 1
formatRgb(color, translucent) ==
  LET channels == ToString10(color.r) \o <<",", " ">> \o ToString10(color.g)
                    \o <<",", " ">> \o ToString10(color.b)
  IN  IF translucent
      THEN <<"r", "g", "b", "a", "(">> \o channels \o <<",", " ", "0", ")">>
      ELSE <<"r", "g", "b", "(">> \o channels \o <<")">>

IsDecimalDigit(ch) == \E k \in 1..10 : LowerDigits[k] = ch

\* the position after the run of decimal digits (\d+) that starts at i
RECURSIVE DigitsEnd(_, _)
DigitsEnd(s, i) == IF i <= Len(s) /\ IsDecimalDigit(s[i]) THEN DigitsEnd(s, i + 1) ELSE i

\* the position after the run of blanks (\s*) that starts at i
RECURSIVE BlanksEnd(_, _)
BlanksEnd(s, i) == IF i <= Len(s) /\ s[i] = " " THEN BlanksEnd(s, i + 1) ELSE i

\* parseInt(digits, 10)
RECURSIVE ParseInt10(_)
ParseInt10(digits) ==
  IF Len(digits) = 0 THEN 0
  ELSE 10 * ParseInt10(SubSeq(digits, 1, Len(digits) - 1)) + DigitValue(digits[Len(digits)])

\* rgb.match(/rgb\((\d+),\s*(\d+),\s*(\d+)\)/) on the text formatRgb produces,
\* where "rgb(" can only stand at the start: the three groups, or no match
MatchRgb(rgb) ==
  IF Len(rgb) < 4 \/ SubSeq(rgb, 1, 4) # <<"r", "g", "b", "(">>
  THEN [matched |-> FALSE]
  ELSE LET e1 == DigitsEnd(rgb, 5)
           s2 == BlanksEnd(rgb, e1 + 1)
           e2 == DigitsEnd(rgb, s2)
           s3 == BlanksEnd(rgb, e2 + 1)
           e3 == DigitsEnd(rgb, s3)
       IN  IF /\ e1 > 5 /\ e1 <= Len(rgb) /\ rgb[e1] = ","
              /\ e2 > s2 /\ e2 <= Len(rgb) /\ rgb[e2] = ","
              /\ e3 > s3 /\ e3 <= Len(rgb) /\ rgb[e3] = ")"
           THEN [matched |-> TRUE,
                 g1 |-> SubSeq(rgb, 5, e1 - 1),
                 g2 |-> SubSeq(rgb, s2, e2 - 1),
                 g3 |-> SubSeq(rgb, s3, e3 - 1)]
           ELSE [matched |-> FALSE]

FailedToConvert == "Failed to convert color to RGB"

hexToRgb(hex) ==
  Const(CuloriParse(hex), LAMBDA color :
    IF ~color.defined
    THEN Throw(InvalidHexColor)
    ELSE Const(MatchRgb(formatRgb(color, AlphaBelowOne(hex))), LAMBDA match :
           IF ~match.matched
           THEN Throw(FailedToConvert)
           ELSE [ok |-> TRUE,
                 r |-> ParseInt10(match.g1),
                 g |-> ParseInt10(match.g2),
                 b |-> ParseInt10(match.g3)]))

ToHex_PadsRight(n) ==
  LET hex == ToString16(n)
  IN  IF Len(hex) = 1 THEN hex \o <<"0">> ELSE hex

\* the inner toHex of rgbToHex, for an integer channel value
ToHex(n) ==
  LET hex == ToString16(n)
  IN  IF Len(hex) = 1 THEN <<"0">> \o hex ELSE hex

rgbToHex(rgb) == <<"#">> \o ToHex(rgb.r) \o ToHex(rgb.g) \o ToHex(rgb.b)

(***************************************************************************)
(* OKLCH module: generatePalette.  A palette entry keeps, next to the hex   *)
(* string pushed on the palette, the OKLCH triple it was encoded from.     *)
(***************************************************************************)
Schemes ==
  {"dichromatic", "complementary", "split-complementary", "triadic", "tetradic", "analogous", "monochromatic"}

SeedEntry_Reencoded(startColor) ==
  LET oklchColor == hexToOklch(startColor)
  IN  [hex |-> oklchToHex([l |-> oklchColor.l, c |-> oklchColor.c, h |-> oklchColor.h]),
       seed |-> TRUE, l |-> 0, c |-> 0, h |-> 0]

SeedEntry(startColor) == [hex |-> startColor, seed |-> TRUE, l |-> 0, c |-> 0, h |-> 0]
Entry(newOklch) ==
  Const(newOklch, LAMBDA o :
    [hex |-> oklchToHex(o), seed |-> FALSE, l |-> o.l, c |-> o.c, h |-> o.h])

\* Array.prototype.slice(0, end)
Slice(s, end) ==
  LET stop == IF end < 0 THEN (IF Len(s) + end < 0 THEN 0 ELSE Len(s) + end)
              ELSE IF end > Len(s) THEN Len(s) ELSE end
  IN  SubSeq(s, 1, stop)

Hexes(entries) == [k \in 1..Len(entries) |-> entries[k].hex]

FloorHalf_Ceiling(n) == (n + 1) \div 2

\* Math.floor(n / 2) for an integer n
FloorHalf(n) == n \div 2

hueOffsets_TrimsMiddle(scheme, count) ==
  CASE scheme = "dichromatic" -> IF count > 1 THEN <<180>> ELSE <<>>
    [] scheme = "complementary" -> <<180>>
    [] scheme = "split-complementary" -> <<150, 210>>
    [] scheme = "triadic" ->
         IF count >= 3 THEN <<120, 240>> ELSE IF count = 2 THEN <<120>> ELSE <<>>
    [] scheme = "tetradic" ->
         IF count >= 4 THEN <<90, 180, 270>>
         ELSE IF count = 3 THEN <<90, 270>>
         ELSE IF count = 2 THEN <<90>> ELSE <<>>
    [] scheme = "analogous" ->
         IF count > 1
         THEN [i \in 1..(count - 1) |-> -(FloorHalf(count - 1) * 30) + (i - 1) * 30]
         ELSE <<>>
    [] scheme = "monochromatic" -> <<>>
    [] OTHER ->
         IF count >= 3 THEN <<120, 240>> ELSE IF count = 2 THEN <<120>> ELSE <<>>

\* the switch on the scheme
hueOffsets(scheme, count) ==
  CASE scheme = "dichromatic" -> IF count > 1 THEN <<180>> ELSE <<>>
    [] scheme = "complementary" -> <<180>>
    [] scheme = "split-complementary" -> <<150, 210>>
    [] scheme = "triadic" ->
         IF count >= 3 THEN <<120, 240>> ELSE IF count = 2 THEN <<120>> ELSE <<>>
    [] scheme = "tetradic" ->
         IF count >= 4 THEN <<90, 180, 270>>
         ELSE IF count = 3 THEN <<90, 180>>
         ELSE IF count = 2 THEN <<90>> ELSE <<>>
    [] scheme = "analogous" ->
         IF count > 1
         THEN LET startOffset == -(FloorHalf(count - 1) * 30)
              IN  [i \in 1..(count - 1) |-> startOffset + (i - 1) * 30]
         ELSE <<>>
    [] scheme = "monochromatic" -> <<>>
    [] OTHER ->
         IF count >= 3 THEN <<120, 240>> ELSE IF count = 2 THEN <<120>> ELSE <<>>

MonochromaticColor_Descending(oklchColor, count, i) ==
  LET lightnessRange == MathMin(Frac(7, 10), MathMax(Frac(3, 10), Scale - oklchColor.l * 2))
      minL == MathMax(Frac(15, 100), oklchColor.l - lightnessRange \div 2)
      maxL == MathMin(Frac(95, 100), oklchColor.l + lightnessRange \div 2)
      minC == MathMax(0, Mul(oklchColor.c, Frac(3, 10)))
      maxC == MathMin(getMaxChroma(oklchColor.l, oklchColor.h), Mul(oklchColor.c, Frac(15, 10)))
      progress == i * Quotient(1, count - 1)
      newL == maxL - Mul(progress, maxL - minL)
      newC == minC + Mul(Scale - Abs(progress - Frac(5, 10)) * 2, maxC - minC)
  IN  [l |-> newL, c |-> MathMax(0, MathMin(getMaxChroma(newL, oklchColor.h), newC)), h |-> oklchColor.h]

\* the body of the monochromatic loop, for one i
MonochromaticColor(oklchColor, count, i) ==
  LET step == Quotient(1, count - 1)
      baseL == oklchColor.l
      baseC == oklchColor.c
      baseH == oklchColor.h
      lightnessRange == MathMin(Frac(7, 10), MathMax(Frac(3, 10), Scale - baseL * 2))
      minL == MathMax(Frac(15, 100), baseL - lightnessRange \div 2)
      maxL == MathMin(Frac(95, 100), baseL + lightnessRange \div 2)
      minC == MathMax(0, Mul(baseC, Frac(3, 10)))
      maxC == MathMin(getMaxChroma(baseL, baseH), Mul(baseC, Frac(15, 10)))
      chromaRange == maxC - minC
      progress == i * step
      t == progress
      newL == minL + Mul(t, maxL - minL)
      newC == minC + Mul(Scale - Abs(progress - Frac(5, 10)) * 2, chromaRange)
  IN  [l |-> newL, c |-> MathMax(0, MathMin(getMaxChroma(newL, baseH), newC)), h |-> baseH]

RECURSIVE MonochromaticLoop(_, _, _, _)
MonochromaticLoop(palette, oklchColor, count, i) ==
  IF i < count
  THEN Const(Append(palette, Entry(MonochromaticColor(oklchColor, count, i))),
             LAMBDA pushed : MonochromaticLoop(pushed, oklchColor, count, i + 1))
  ELSE palette

OffsetColor_Unclamped(oklchColor, offset) ==
  [l |-> oklchColor.l,
   c |-> oklchColor.c,
   h |-> JsRem(oklchColor.h + Deg(offset) + Deg(360), Deg(360))]

\* the body of the hue-offset loop, for one offset
OffsetColor(oklchColor, offset) ==
  LET baseL == oklchColor.l
      baseC == oklchColor.c
      baseH == oklchColor.h
      newH == JsRem(baseH + Deg(offset) + Deg(360), Deg(360))
      maxC == getMaxChroma(baseL, newH)
  IN  [l |-> baseL, c |-> MathMin(maxC, baseC), h |-> newH]

RECURSIVE OffsetLoop(_, _, _, _, _)
OffsetLoop(palette, oklchColor, offsets, i, count) ==
  IF i <= Len(offsets) /\ Len(palette) < count
  THEN Const(Append(palette, Entry(OffsetColor(oklchColor, offsets[i]))),
             LAMBDA pushed : OffsetLoop(pushed, oklchColor, offsets, i + 1, count))
  ELSE palette

\* the body of the fill loop: the next colour after the last one pushed
FillColor(palette) ==
  Const(hexToOklch(palette[Len(palette)].hex), LAMBDA lastColor :
    LET firstColor == hexToOklch(palette[1].hex)
        newH == IF lastColor.h # UndefinedHue
                THEN JsRem(lastColor.h + Deg(30), Deg(360))
                ELSE IF firstColor.h # UndefinedHue
                THEN JsRem(firstColor.h + Deg(30), Deg(360))
                ELSE 0
    IN  [l |-> MathMax(Frac(2, 10), MathMin(Frac(9, 10), lastColor.l)),
         c |-> MathMin(getMaxChroma(lastColor.l, newH), lastColor.c),
         h |-> newH])

RECURSIVE FillLoop_StopsEarly(_, _)
FillLoop_StopsEarly(palette, count) ==
  IF Len(palette) < count - 1
  THEN Const(Append(palette, Entry(FillColor(palette))),
             LAMBDA pushed : FillLoop_StopsEarly(pushed, count))
  ELSE palette

RECURSIVE FillLoop(_, _)
FillLoop(palette, count) ==
  IF Len(palette) < count
  THEN Const(Append(palette, Entry(FillColor(palette))),
             LAMBDA pushed : FillLoop(pushed, count))
  ELSE palette

\* the palette before the final slice
PaletteEntries(startColor, oklchColor, scheme, count) ==
  LET palette == <<SeedEntry(startColor)>>
  IN  IF scheme = "monochromatic"
      THEN IF count > 1 THEN MonochromaticLoop(palette, oklchColor, count, 1) ELSE palette
      ELSE Const(OffsetLoop(palette, oklchColor, hueOffsets(scheme, count), 1, count),
                 LAMBDA afterOffsets : FillLoop(afterOffsets, count))

\* what a function returns: the value, and next to it the entries it was made from
Returns(made) == Const(made, LAMBDA m : [ok |-> TRUE, value |-> Hexes(m), made |-> m])

generatePalette_SwallowsError(startColor, scheme, count) ==
  Const(hexToOklch(startColor), LAMBDA oklchColor :
    IF ~oklchColor.ok
    THEN [ok |-> TRUE, value |-> <<startColor>>, made |-> <<SeedEntry(startColor)>>]
    ELSE Returns(Slice(PaletteEntries(startColor, oklchColor, scheme, count), count)))

generatePalette_RejectsCount(startColor, scheme, count) ==
  Const(hexToOklch(startColor), LAMBDA oklchColor :
    IF ~oklchColor.ok
    THEN oklchColor
    ELSE IF count < 1
    THEN Throw("count must be at least 1")
    ELSE Returns(Slice(PaletteEntries(startColor, oklchColor, scheme, count), count)))

generatePalette(startColor, scheme, count) ==
  Const(hexToOklch(startColor), LAMBDA oklchColor :
    IF ~oklchColor.ok
    THEN oklchColor
    ELSE Returns(Slice(PaletteEntries(startColor, oklchColor, scheme, count), count)))

(***************************************************************************)
(* OKLCH module: the stepped gradients and the smooth sampler.             *)
(***************************************************************************)
ValueStep_Descending(oklchColor, progress) ==
  LET baseL == oklchColor.l
      minL == MathMax(Frac(1, 10), baseL - Frac(3, 10))
      maxL == MathMin(Frac(98, 100), baseL + Frac(3, 10))
      newL == Sub(maxL, Times(progress, maxL - minL))
      chromaMultiplier == Sub(Scale, Times(MathAbs(Sub(progress, Frac(5, 10))), Frac(4, 10)))
  IN  [l |-> newL,
       c |-> MathMin(getMaxChroma(newL, oklchColor.h), Times(oklchColor.c, chromaMultiplier)),
       h |-> oklchColor.h]

\* the body of the loop of generateValueGradient at one progress value
ValueStep(oklchColor, progress) ==
  LET baseL == oklchColor.l
      baseC == oklchColor.c
      baseH == oklchColor.h
      lightnessRange == Frac(6, 10)
      minL == MathMax(Frac(1, 10), baseL - lightnessRange \div 2)
      maxL == MathMin(Frac(98, 100), baseL + lightnessRange \div 2)
      newL == Add(minL, Times(progress, maxL - minL))
      chromaMultiplier == Sub(Scale, Times(MathAbs(Sub(progress, Frac(5, 10))), Frac(4, 10)))
      maxC == getMaxChroma(newL, baseH)
      newC == MathMin(maxC, Times(baseC, chromaMultiplier))
  IN  [l |-> newL, c |-> newC, h |-> baseH]

SaturationStep_FixedRange(oklchColor, progress) ==
  LET maxC == getMaxChroma(oklchColor.l, oklchColor.h)
      minC == MathMax(0, Mul(oklchColor.c, Frac(1, 10)))
      newC == MathMin(maxC, Add(minC, Times(progress, Frac(15, 100))))
  IN  [l |-> oklchColor.l, c |-> newC, h |-> oklchColor.h]

\* the body of the loop of generateSaturationGradient at one progress value
SaturationStep(oklchColor, progress) ==
  LET baseL == oklchColor.l
      baseC == oklchColor.c
      baseH == oklchColor.h
      maxC == getMaxChroma(baseL, baseH)
      minC == MathMax(0, Mul(baseC, Frac(1, 10)))
      chromaRange == MathMax(Frac(15, 100), maxC - minC)
      newC == MathMin(maxC, Add(minC, Times(progress, chromaRange)))
  IN  [l |-> baseL, c |-> newC, h |-> baseH]

\* the body of the loop of generateCombinedGradient at one progress value
CombinedStep(oklchColor, progress) ==
  LET baseL == oklchColor.l
      baseC == oklchColor.c
      baseH == oklchColor.h
      lightnessRange == Frac(5, 10)
      minL == MathMax(Frac(15, 100), baseL - lightnessRange \div 2)
      maxL == MathMin(Frac(95, 100), baseL + lightnessRange \div 2)
      maxC == getMaxChroma(baseL, baseH)
      minC == MathMax(0, Mul(baseC, Frac(2, 10)))
      chromaRange == MathMax(Frac(1, 10), maxC - minC)
      newL == Add(minL, Times(progress, maxL - minL))
      chromaProgress == progress
      currentMaxC == getMaxChroma(newL, baseH)
      newC == MathMin(currentMaxC, Add(minC, Times(chromaProgress, chromaRange)))
  IN  [l |-> newL, c |-> newC, h |-> baseH]

StepProgress_OverSteps(i, steps) == Quotient(i, steps)

\* const progress = i / (steps - 1)
StepProgress(i, steps) == Quotient(i, steps - 1)

\* for (let i = 0; i < steps; i++): the indices the loop visits
LoopCount(steps) == IF steps < 0 THEN 0 ELSE steps

generateValueGradient(color, steps) ==
  Const(hexToOklch(color), LAMBDA oklchColor :
    IF ~oklchColor.ok
    THEN oklchColor
    ELSE Returns([k \in 1..LoopCount(steps) |->
                    Entry(ValueStep(oklchColor, StepProgress(k - 1, steps)))]))

generateSaturationGradient(color, steps) ==
  Const(hexToOklch(color), LAMBDA oklchColor :
    IF ~oklchColor.ok
    THEN oklchColor
    ELSE Returns([k \in 1..LoopCount(steps) |->
                    Entry(SaturationStep(oklchColor, StepProgress(k - 1, steps)))]))

generateCombinedGradient(color, steps) ==
  Const(hexToOklch(color), LAMBDA oklchColor :
    IF ~oklchColor.ok
    THEN oklchColor
    ELSE Returns([k \in 1..LoopCount(steps) |->
                    Entry(CombinedStep(oklchColor, StepProgress(k - 1, steps)))]))

SmoothValue_NarrowBand(oklchColor, position) ==
  LET baseL == oklchColor.l
      minL == MathMax(Frac(1, 10), baseL - Frac(25, 100))
      maxL == MathMin(Frac(98, 100), baseL + Frac(25, 100))
      newL == Add(minL, Times(position, maxL - minL))
      chromaMultiplier == Sub(Scale, Times(MathAbs(Sub(position, Frac(5, 10))), Frac(4, 10)))
  IN  [l |-> newL,
       c |-> MathMin(getMaxChroma(newL, oklchColor.h), Times(oklchColor.c, chromaMultiplier)),
       h |-> oklchColor.h]

\* case "value" of getSmoothGradientColor
SmoothValue(oklchColor, position) ==
  LET baseL == oklchColor.l
      baseC == oklchColor.c
      baseH == oklchColor.h
      lightnessRange == Frac(6, 10)
      minL == MathMax(Frac(1, 10), baseL - lightnessRange \div 2)
      maxL == MathMin(Frac(98, 100), baseL + lightnessRange \div 2)
      newL == Add(minL, Times(position, maxL - minL))
      chromaMultiplier == Sub(Scale, Times(MathAbs(Sub(position, Frac(5, 10))), Frac(4, 10)))
      maxC == getMaxChroma(newL, baseH)
      newC == MathMin(maxC, Times(baseC, chromaMultiplier))
  IN  [l |-> newL, c |-> newC, h |-> baseH]

\* case "saturation" of getSmoothGradientColor
SmoothSaturation(oklchColor, position) ==
  LET baseL == oklchColor.l
      baseC == oklchColor.c
      baseH == oklchColor.h
      maxC == getMaxChroma(baseL, baseH)
      minC == MathMax(0, Mul(baseC, Frac(1, 10)))
      chromaRange == MathMax(Frac(15, 100), maxC - minC)
      newC == MathMin(maxC, Add(minC, Times(position, chromaRange)))
  IN  [l |-> baseL, c |-> newC, h |-> baseH]

\* case "both" of getSmoothGradientColor
SmoothBoth(oklchColor, position) ==
  LET baseL == oklchColor.l
      baseC == oklchColor.c
      baseH == oklchColor.h
      lightnessRange == Frac(5, 10)
      minL == MathMax(Frac(15, 100), baseL - lightnessRange \div 2)
      maxL == MathMin(Frac(95, 100), baseL + lightnessRange \div 2)
      newL == Add(minL, Times(position, maxL - minL))
      maxC == getMaxChroma(newL, baseH)
      minC == MathMax(0, Mul(baseC, Frac(2, 10)))
      chromaRange == MathMax(Frac(1, 10), Sub(maxC, minC))
      currentMaxC == getMaxChroma(newL, baseH)
      newC == MathMin(currentMaxC, Add(minC, Times(position, chromaRange)))
  IN  [l |-> newL, c |-> newC, h |-> baseH]

GradientTypes == {"value", "saturation", "both"}

getSmoothGradientColor(color, position, gradientType) ==
  Const(hexToOklch(color), LAMBDA oklchColor :
    IF ~oklchColor.ok
    THEN oklchColor
    ELSE Const(Entry(CASE gradientType = "value" -> SmoothValue(oklchColor, position)
                       [] gradientType = "saturation" -> SmoothSaturation(oklchColor, position)
                       [] gradientType = "both" -> SmoothBoth(oklchColor, position)),
               LAMBDA made : [ok |-> TRUE, value |-> made.hex, made |-> <<made>>]))

(***************************************************************************)
(* Legacy module: rgbToHsl, hslToRgb and generatePalette.  HSL components  *)
(* are degrees and percentages in fixed point.                             *)
(***************************************************************************)
Max3(a, b, c) == MathMax(a, MathMax(b, c))
Min3(a, b, c) == MathMin(a, MathMin(b, c))

LegacyRgbToHsl(rgb) ==
  LET r == RoundDiv(rgb.r * Scale, 255)
      g == RoundDiv(rgb.g * Scale, 255)
      b == RoundDiv(rgb.b * Scale, 255)
      max == Max3(r, g, b)
      min == Min3(r, g, b)
      l == (max + min) \div 2
      d == max - min
      s == IF max = min THEN 0
           ELSE IF l > Frac(5, 10) THEN Div(d, 2 * Scale - max - min) ELSE Div(d, max + min)
      h == IF max = min THEN 0
           ELSE IF max = r THEN RoundDiv(Div(g - b, d) + (IF g < b THEN 6 * Scale ELSE 0), 6)
           ELSE IF max = g THEN RoundDiv(Div(b - r, d) + 2 * Scale, 6)
           ELSE RoundDiv(Div(r - g, d) + 4 * Scale, 6)
  IN  [h |-> h * 360, s |-> s * 100, l |-> l * 100]

\* the inner hue2rgb of the legacy hslToRgb
LegacyHue2Rgb(p, q, t0) ==
  LET t1 == IF t0 < 0 THEN t0 + Scale ELSE t0
      t == IF t1 > Scale THEN t1 - Scale ELSE t1
  IN  IF t < Frac(1, 6) THEN p + Mul(Mul(q - p, 6 * Scale), t)
      ELSE IF t < Frac(1, 2) THEN q
      ELSE IF t < Frac(2, 3) THEN p + Mul(Mul(q - p, Frac(2, 3) - t), 6 * Scale)
      ELSE p

\* Math.round(x * 255) for x >= 0
Round255(x) == RoundDiv(x * 255, Scale)

LegacyHslToRgb(hsl) ==
  LET h == RoundDiv(hsl.h, 360)
      s == RoundDiv(hsl.s, 100)
      l == RoundDiv(hsl.l, 100)
      q == IF l < Frac(5, 10) THEN Mul(l, Scale + s) ELSE l + s - Mul(l, s)
      p == 2 * l - q
      r == IF s = 0 THEN l ELSE LegacyHue2Rgb(p, q, h + Frac(1, 3))
      g == IF s = 0 THEN l ELSE LegacyHue2Rgb(p, q, h)
      b == IF s = 0 THEN l ELSE LegacyHue2Rgb(p, q, h - Frac(1, 3))
  IN  [r |-> Round255(r), g |-> Round255(g), b |-> Round255(b)]

\* Array.from({ length: n }, f): a negative length gives the empty array
ArrayLength(n) == IF n < 0 THEN 0 ELSE n

LegacyHueOffsets(scheme, count) ==
  CASE scheme = "dichromatic" -> IF count > 1 THEN <<180>> ELSE <<>>
    [] scheme = "complementary" -> <<180>>
    [] scheme = "split-complementary" -> <<150, 210>>
    [] scheme = "triadic" -> <<120, 240>>
    [] scheme = "tetradic" -> <<90, 180, 270>>
    [] scheme = "analogous" -> [i \in 1..ArrayLength(count - 1) |-> i * 30]
    [] scheme = "monochromatic" -> <<>>
    [] OTHER -> <<120, 240>>

LegacyMonochromaticColor(hsl, count, i) ==
  LET step == IF count > 1 THEN Quotient(1, count - 1) ELSE Scale
      progress == i * step
  IN  [h |-> hsl.h,
       s |-> MathMax(Deg(20), MathMin(Deg(100), Mul(hsl.s, Frac(5, 10) + Mul(progress, Frac(5, 10))))),
       l |-> MathMax(Deg(10), MathMin(Deg(90), Deg(20) + Mul(progress, Deg(70))))]

RECURSIVE LegacyMonochromaticLoop(_, _, _, _)
LegacyMonochromaticLoop(palette, hsl, count, i) ==
  IF i < count
  THEN LegacyMonochromaticLoop(
         Append(palette, LegacyRgbToHex(LegacyHslToRgb(LegacyMonochromaticColor(hsl, count, i)))),
         hsl, count, i + 1)
  ELSE palette

LegacyOffsetColor(hsl, offset) ==
  [h |-> JsRem(hsl.h + Deg(offset), Deg(360)),
   s |-> MathMax(Deg(30), MathMin(Deg(100), hsl.s)),
   l |-> MathMax(Deg(20), MathMin(Deg(80), hsl.l))]

RECURSIVE LegacyOffsetLoop(_, _, _, _, _)
LegacyOffsetLoop(palette, hsl, offsets, i, colorsToGenerate) ==
  IF i < colorsToGenerate
  THEN LegacyOffsetLoop(
         Append(palette, LegacyRgbToHex(LegacyHslToRgb(LegacyOffsetColor(hsl, offsets[i + 1])))),
         hsl, offsets, i + 1, colorsToGenerate)
  ELSE palette

LegacyFillColor(palette) ==
  LET lastColor == palette[Len(palette)]
      lastRgb == LegacyHexToRgb(lastColor)
      lastHsl == LegacyRgbToHsl(lastRgb)
  IN  [h |-> JsRem(lastHsl.h + Deg(30), Deg(360)),
       s |-> MathMax(Deg(30), MathMin(Deg(100), lastHsl.s)),
       l |-> MathMax(Deg(20), MathMin(Deg(80), lastHsl.l))]

RECURSIVE LegacyFillLoop(_, _)
LegacyFillLoop(palette, count) ==
  IF Len(palette) < count
  THEN LegacyFillLoop(Append(palette, LegacyRgbToHex(LegacyHslToRgb(LegacyFillColor(palette)))), count)
  ELSE palette

LegacyPaletteEntries(startColor, hsl, scheme, count) ==
  LET palette == <<startColor>>
      offsets == LegacyHueOffsets(scheme, count)
      colorsToGenerate == MathMin(count - 1, Len(offsets))
  IN  IF scheme = "monochromatic"
      THEN LegacyMonochromaticLoop(palette, hsl, count, 1)
      ELSE LegacyFillLoop(LegacyOffsetLoop(palette, hsl, offsets, 0, colorsToGenerate), count)

LegacyGeneratePalette(startColor, scheme, count) ==
  LET rgb == LegacyHexToRgb(startColor)
  IN  IF ~rgb.ok
      THEN rgb
      ELSE [ok |-> TRUE,
            value |-> Slice(LegacyPaletteEntries(startColor, LegacyRgbToHsl(rgb), scheme, count), count),
            made |-> <<>>]

(***************************************************************************)
(* The hslToRgb kept in the OKLCH module.                                  *)
(***************************************************************************)
\* its inner hue2rgb: an argument above 1 is moved up by 1, not down
hue2rgb(p, q, t0) ==
  LET t1 == IF t0 < 0 THEN t0 + Scale ELSE t0
      t == IF t1 > Scale THEN t1 + Scale ELSE t1
  IN  IF t < Frac(1, 6) THEN p + Mul(Mul(q - p, 6 * Scale), t)
      ELSE IF t < Frac(1, 2) THEN q
      ELSE IF t < Frac(2, 3) THEN p + Mul(Mul(q - p, Frac(2, 3) - t), 6 * Scale)
      ELSE p

hslToRgb(hsl) ==
  LET h == RoundDiv(hsl.h, 360)
      s == RoundDiv(hsl.s, 100)
      l == RoundDiv(hsl.l, 100)
      q == IF l < Frac(5, 10) THEN Mul(l, Scale + s) ELSE l + s - Mul(l, s)
      p == 2 * l - q
      r == IF s = 0 THEN l ELSE hue2rgb(p, q, h + Frac(1, 3))
      g == IF s = 0 THEN l ELSE hue2rgb(p, q, h)
      b == IF s = 0 THEN l ELSE hue2rgb(p, q, h - Frac(1, 3))
  IN  [r |-> Round255(r), g |-> Round255(g), b |-> Round255(b)]

(***************************************************************************)
(* The inputs the calls are drawn from.                                    *)
(***************************************************************************)
SeedColors ==
  { [r |-> 59, g |-> 130, b |-> 246],
    [r |-> 128, g |-> 128, b |-> 128],
    [r |-> 0, g |-> 0, b |-> 0],
    [r |-> 255, g |-> 255, b |-> 255],
    [r |-> 255, g |-> 0, b |-> 0],
    [r |-> 0, g |-> 255, b |-> 0],
    [r |-> 0, g |-> 0, b |-> 255],
    [r |-> 255, g |-> 255, b |-> 0],
    [r |-> 5, g |-> 5, b |-> 59],
    [r |-> 128, g |-> 0, b |-> 0] }

\* '#' and six lowercase digits
CanonicalStrings == {rgbToHex(c) : c \in SeedColors}

\* six digits in other spellings: upper case, mixed case, no '#'
SixDigitStrings ==
  { <<"3", "B", "8", "2", "F", "6">>,
    <<"#", "3", "B", "8", "2", "F", "6">>,
    <<"#", "F", "f", "8", "0", "0", "0">>,
    <<"0", "0", "8", "0", "8", "0">> }

\* strings that are not six hexadecimal digits
OtherStrings ==
  { <<>>,
    <<"#">>,
    <<"#", "f", "8", "0">>,
    <<"f", "8", "0">>,
    <<"#", "3", "b", "8", "f">>,
    <<"#", "3", "b", "8", "2", "f", "6", "8", "0">>,
    <<"r", "e", "d">>,
    <<"T", "a", "n">>,
    <<"t", "r", "a", "n", "s", "p", "a", "r", "e", "n", "t">>,
    <<"#", "3", "b", "8", "2", "f", "g">>,
    <<"#", "3", "b", "8", "2", "f">>,
    <<"#", "3", "b", "8", "2", "f", "6", "0">>,
    <<"#", "#", "3", "b", "8", "2", "f", "6">>,
    <<"r", "e", "d", "s">> }

\* the channel values of the grid the conversions are called on
ChannelLevels == {0, 1, 15, 16, 128, 254, 255}
RgbGrid == SeedColors \cup {[r |-> r, g |-> g, b |-> b] : r, g, b \in ChannelLevels}

ColorStrings == CanonicalStrings \cup SixDigitStrings \cup OtherStrings

\* lightness values on both sides of every threshold of getMaxChroma, and hues
LightnessLevels ==
  { 0, Frac(1, 10), Frac(2, 10) - 1, Frac(2, 10), Frac(3, 10), Frac(4, 10) - 1, Frac(4, 10),
    Frac(6, 10), Frac(8, 10), Frac(8, 10) + 1, Frac(9, 10), Frac(95, 100), Frac(95, 100) + 1, Scale }
DefinedHues == {0, Deg(120), Deg(240), Deg(360) - 1}
Hues == DefinedHues \cup {UndefinedHue}

\* HSL triples: hues on both sides of 240 degrees, the ends of every range
HslHues == {0, 60, 120, 180, 240, 241, 270, 300, 359, 360}
HslLevels == {0, 25, 50, 75, 100}
HslGrid ==
  {[h |-> Deg(h), s |-> s * Scale, l |-> l * Scale] : h \in HslHues, s \in HslLevels, l \in HslLevels}

\* the seven scheme tags and one tag outside the type
SchemeTags == Schemes \cup {"unrecognized"}

\* counts and step counts below 1 are drawn as well
Counts == ((-1)..MaxCount) \cup {LargeCount}
StepCounts == (-1)..MaxSteps

(***************************************************************************)
(* The state: the call in progress and what it returned.                   *)
(***************************************************************************)
VARIABLES pc, call, ret

\* the state of the swatches page; edits counts the swatch clicks and the
\* palette edits made so far
VARIABLES startColor, colorScheme, paletteCount, paletteCountInput, customPalette,
          gradientStyle, gradientSteps, edits

\* the ThemeSwitcher: whether it is in the tree, which instance, its state and
\* timer handle, what it rendered, the theme, and the timers of the browser
VARIABLES attached, instance, mounted, timer, timers, rendered, theme

coreVars == <<pc, call, ret>>
pageVars ==
  <<startColor, colorScheme, paletteCount, paletteCountInput, customPalette,
    gradientStyle, gradientSteps, edits>>
themeVars == <<attached, instance, mounted, timer, timers, rendered, theme>>
vars == <<coreVars, pageVars, themeVars>>

NoCall ==
  [fn |-> "none", color |-> <<>>, rgb |-> <<>>, scheme |-> "", count |-> 0, steps |-> 0,
   index |-> 0, position |-> 0, gradientType |-> "", l |-> 0, h |-> 0, hsl |-> <<>>,
   style |-> "", scale |-> 0, margin |-> 0]
NoResult == [ok |-> TRUE, value |-> <<>>, made |-> <<>>]

\* the first render of the page
InitialStartColor == <<"#", "3", "b", "8", "2", "f", "6">>

Init ==
  /\ pc = "idle"
  /\ call = NoCall
  /\ ret = NoResult
  /\ startColor = InitialStartColor
  /\ colorScheme = "triadic"
  /\ paletteCount = 5
  /\ paletteCountInput = <<"5">>
  /\ customPalette = <<>>
  /\ gradientStyle = "smooth"
  /\ gradientSteps = 5
  /\ edits = 0
  /\ attached = FALSE
  /\ instance = 0
  /\ mounted = FALSE
  /\ timer = 0
  /\ timers = <<>>
  /\ rendered = "none"
  /\ theme = "system"

CallHexToOklch ==
  /\ pc = "idle"
  /\ \E color \in ColorStrings :
       /\ call' = [NoCall EXCEPT !.fn = "hexToOklch", !.color = color]
       /\ ret' = hexToOklch(color)
  /\ pc' = "returned"
  /\ UNCHANGED <<pageVars, themeVars>>

CallGetMaxChroma ==
  /\ pc = "idle"
  /\ \E l \in LightnessLevels, h \in Hues :
       /\ call' = [NoCall EXCEPT !.fn = "getMaxChroma", !.l = l, !.h = h]
       /\ ret' = [ok |-> TRUE, value |-> getMaxChroma(l, h), made |-> <<>>]
  /\ pc' = "returned"
  /\ UNCHANGED <<pageVars, themeVars>>

\* oklchToHex on the colour hexToOklch decoded from a six-digit string
CallOklchToHex ==
  /\ pc = "idle"
  /\ \E rgb \in RgbGrid :
       /\ call' = [NoCall EXCEPT !.fn = "oklchToHex", !.color = rgbToHex(rgb), !.rgb = rgb]
       /\ ret' = Const(Entry(hexToOklch(rgbToHex(rgb))),
                       LAMBDA made : [ok |-> TRUE, value |-> made.hex, made |-> <<made>>])
  /\ pc' = "returned"
  /\ UNCHANGED <<pageVars, themeVars>>

CallHexToRgb ==
  /\ pc = "idle"
  /\ \E color \in ColorStrings :
       /\ call' = [NoCall EXCEPT !.fn = "hexToRgb", !.color = color]
       /\ ret' = hexToRgb(color)
  /\ pc' = "returned"
  /\ UNCHANGED <<pageVars, themeVars>>

CallRgbToHex ==
  /\ pc = "idle"
  /\ \E rgb \in RgbGrid :
       /\ call' = [NoCall EXCEPT !.fn = "rgbToHex", !.rgb = rgb]
       /\ ret' = [ok |-> TRUE, value |-> rgbToHex(rgb), made |-> <<>>]
  /\ pc' = "returned"
  /\ UNCHANGED <<pageVars, themeVars>>

CallLegacyRgbToHex ==
  /\ pc = "idle"
  /\ \E rgb \in RgbGrid :
       /\ call' = [NoCall EXCEPT !.fn = "legacy rgbToHex", !.rgb = rgb]
       /\ ret' = [ok |-> TRUE, value |-> LegacyRgbToHex(rgb), made |-> <<>>]
  /\ pc' = "returned"
  /\ UNCHANGED <<pageVars, themeVars>>

CallHslToRgb ==
  /\ pc = "idle"
  /\ \E hsl \in HslGrid :
       /\ call' = [NoCall EXCEPT !.fn = "hslToRgb", !.hsl = hsl]
       /\ ret' = [ok |-> TRUE, value |-> hslToRgb(hsl), made |-> <<>>]
  /\ pc' = "returned"
  /\ UNCHANGED <<pageVars, themeVars>>

CallLegacyHexToRgb ==
  /\ pc = "idle"
  /\ \E color \in ColorStrings :
       /\ call' = [NoCall EXCEPT !.fn = "legacy hexToRgb", !.color = color]
       /\ ret' = LegacyHexToRgb(color)
  /\ pc' = "returned"
  /\ UNCHANGED <<pageVars, themeVars>>

CallGeneratePalette ==
  /\ pc = "idle"
  /\ \E color \in ColorStrings, scheme \in SchemeTags, count \in Counts :
       /\ call' = [NoCall EXCEPT !.fn = "generatePalette", !.color = color,
                                 !.scheme = scheme, !.count = count]
       /\ ret' = generatePalette(color, scheme, count)
  /\ pc' = "returned"
  /\ UNCHANGED <<pageVars, themeVars>>

CallLegacyGeneratePalette ==
  /\ pc = "idle"
  /\ \E color \in ColorStrings, scheme \in SchemeTags, count \in Counts :
       /\ call' = [NoCall EXCEPT !.fn = "legacy generatePalette", !.color = color,
                                 !.scheme = scheme, !.count = count]
       /\ ret' = LegacyGeneratePalette(color, scheme, count)
  /\ pc' = "returned"
  /\ UNCHANGED <<pageVars, themeVars>>

CallGenerateValueGradient ==
  /\ pc = "idle"
  /\ \E color \in ColorStrings, steps \in StepCounts :
       /\ call' = [NoCall EXCEPT !.fn = "generateValueGradient", !.color = color, !.steps = steps]
       /\ ret' = generateValueGradient(color, steps)
  /\ pc' = "returned"
  /\ UNCHANGED <<pageVars, themeVars>>

CallGenerateSaturationGradient ==
  /\ pc = "idle"
  /\ \E color \in ColorStrings, steps \in StepCounts :
       /\ call' = [NoCall EXCEPT !.fn = "generateSaturationGradient", !.color = color, !.steps = steps]
       /\ ret' = generateSaturationGradient(color, steps)
  /\ pc' = "returned"
  /\ UNCHANGED <<pageVars, themeVars>>

CallGenerateCombinedGradient ==
  /\ pc = "idle"
  /\ \E color \in ColorStrings, steps \in StepCounts :
       /\ call' = [NoCall EXCEPT !.fn = "generateCombinedGradient", !.color = color, !.steps = steps]
       /\ ret' = generateCombinedGradient(color, steps)
  /\ pc' = "returned"
  /\ UNCHANGED <<pageVars, themeVars>>

\* the sampler is called at the positions index / (steps - 1) of a grid of steps >= 2 points
CallGetSmoothGradientColor ==
  /\ pc = "idle"
  /\ \E color \in ColorStrings, steps \in 2..MaxSteps, gradientType \in GradientTypes :
       \E index \in 0..(steps - 1) :
         /\ call' = [NoCall EXCEPT !.fn = "getSmoothGradientColor", !.color = color,
                                   !.steps = steps, !.index = index,
                                   !.position = Quotient(index, steps - 1),
                                   !.gradientType = gradientType]
         /\ ret' = getSmoothGradientColor(color, Quotient(index, steps - 1), gradientType)
  /\ pc' = "returned"
  /\ UNCHANGED <<pageVars, themeVars>>

\* the caller takes the result; the next call starts from scratch
Return ==
  /\ pc = "returned"
  /\ pc' = "idle"
  /\ call' = NoCall
  /\ ret' = NoResult
  /\ UNCHANGED <<pageVars, themeVars>>

Next ==
  \/ CallHexToOklch
  \/ CallGetMaxChroma
  \/ CallOklchToHex
  \/ CallHexToRgb
  \/ CallRgbToHex
  \/ CallLegacyRgbToHex
  \/ CallHslToRgb
  \/ CallLegacyHexToRgb
  \/ CallGeneratePalette
  \/ CallLegacyGeneratePalette
  \/ CallGenerateValueGradient
  \/ CallGenerateSaturationGradient
  \/ CallGenerateCombinedGradient
  \/ CallGetSmoothGradientColor
  \/ Return

Spec == Init /\ [][Next]_vars

(***************************************************************************)
(* The swatches page: its state after each event handler and the render    *)
(* that follows it.                                                        *)
(***************************************************************************)
\* what the inputs of the page can hand to the handlers
PickerColors == {<<"#", "3", "b", "8", "2", "f", "6">>}
TypedColors ==
  { <<"#", "3", "B", "8", "2", "F", "6">>,
    <<"3", "b", "8", "2", "f", "6">>,
    <<"#", "3", "b", "8", "2", "f">>,
    <<"#", "3", "b", "8", "2", "f", "g">>,
    <<"r", "e", "d">> }
TypedCounts == {<<"1">>, <<"2">>, <<"2", "1">>}
TypedSteps == {<<>>, <<"2">>, <<"1", "1">>}
PageSchemes == {"triadic", "monochromatic"}
GradientStyles == {"smooth", "steps", "both"}
\* the styles selected on the page
PageStyles == {"smooth", "steps"}
\* the first and the last swatch of a palette
Swatches(colors) == {1, Len(colors)}

\* parseInt(value, 10): blanks, an optional sign, then the run of decimal digits
parseInt(value) ==
  LET start == BlanksEnd(value, 1)
      signed == start <= Len(value) /\ value[start] \in {"-", "+"}
      first == IF signed THEN start + 1 ELSE start
      stop == DigitsEnd(value, first)
  IN  IF stop = first THEN NaN
      ELSE IF signed /\ value[start] = "-" THEN -ParseInt10(SubSeq(value, first, stop - 1))
      ELSE ParseInt10(SubSeq(value, first, stop - 1))

\* /^#[0-9A-Fa-f]{6}$/.test(value)
StartColorMatches(value) ==
  Len(value) = 7 /\ value[1] = "#" /\ AllHexDigits(Tail(value))

PaletteCountInRange_FromOne(numValue) == ~IsNaN(numValue) /\ numValue >= 1 /\ numValue <= 20

\* !isNaN(numValue) && numValue >= 2 && numValue <= 20
PaletteCountInRange(numValue) == ~IsNaN(numValue) /\ numValue >= 2 /\ numValue <= 20

\* value >= 2 && value <= 10
GradientStepsInRange(value) == ~IsNaN(value) /\ value >= 2 /\ value <= 10

\* useMemo(() => generatePalette(startColor, colorScheme, paletteCount)); a throw
\* leaves the page without a palette
basePalette ==
  Const(generatePalette(startColor, colorScheme, paletteCount),
        LAMBDA made : IF made.ok THEN made.value ELSE <<>>)

palette_AlwaysBase == basePalette

\* const palette = customPalette.length > 0 ? customPalette : basePalette
palette == IF Len(customPalette) > 0 THEN customPalette ELSE basePalette

ShowsRemove_AboveOne(colors) == Len(colors) > 1

\* palette.length > 2 && <Button onClick={() => removeColorFromPalette(index)}>
ShowsRemove(colors) == Len(colors) > 2

\* the render after a handler: the effect puts paletteCount.toString() into
\* the count input when paletteCount changed
Render(color, scheme, count, input) ==
  /\ startColor' = color
  /\ colorScheme' = scheme
  /\ paletteCount' = count
  /\ paletteCountInput' = IF count # paletteCount THEN ToString10(count) ELSE input

\* the color input hands over '#' and six lowercase digits
ChangeColorPicker ==
  /\ \E value \in PickerColors : Render(value, colorScheme, paletteCount, paletteCountInput)
  /\ UNCHANGED <<customPalette, gradientStyle, gradientSteps, edits>>
  /\ UNCHANGED <<coreVars, themeVars>>

ChangeColorText ==
  /\ \E value \in TypedColors :
       Render(IF StartColorMatches(value) THEN value ELSE startColor,
              colorScheme, paletteCount, paletteCountInput)
  /\ UNCHANGED <<customPalette, gradientStyle, gradientSteps, edits>>
  /\ UNCHANGED <<coreVars, themeVars>>

SelectColorScheme ==
  /\ \E value \in PageSchemes : Render(startColor, value, paletteCount, paletteCountInput)
  /\ UNCHANGED <<customPalette, gradientStyle, gradientSteps, edits>>
  /\ UNCHANGED <<coreVars, themeVars>>

ChangePaletteCount ==
  /\ \E value \in TypedCounts :
       LET numValue == parseInt(value)
       IN  Render(startColor, colorScheme,
                  IF PaletteCountInRange(numValue) THEN numValue ELSE paletteCount,
                  value)
  /\ UNCHANGED <<customPalette, gradientStyle, gradientSteps, edits>>
  /\ UNCHANGED <<coreVars, themeVars>>

BlurPaletteCount ==
  /\ LET value == paletteCountInput
         numValue == parseInt(value)
     IN  IF value = <<>> \/ IsNaN(numValue) \/ numValue < 2
         THEN Render(startColor, colorScheme, 5, <<"5">>)
         ELSE IF numValue > 20
         THEN Render(startColor, colorScheme, 20, <<"2", "0">>)
         ELSE Render(startColor, colorScheme, numValue, ToString10(numValue))
  /\ UNCHANGED <<customPalette, gradientStyle, gradientSteps, edits>>
  /\ UNCHANGED <<coreVars, themeVars>>

SelectGradientStyle ==
  /\ \E value \in PageStyles : gradientStyle' = value
  /\ UNCHANGED <<startColor, colorScheme, paletteCount, paletteCountInput>>
  /\ UNCHANGED <<customPalette, gradientSteps, edits>>
  /\ UNCHANGED <<coreVars, themeVars>>

\* the steps input is rendered only for the style "steps"
ChangeGradientSteps ==
  /\ gradientStyle = "steps"
  /\ \E text \in TypedSteps :
       LET value == parseInt(text)
       IN  gradientSteps' = IF GradientStepsInRange(value) THEN value ELSE gradientSteps
  /\ UNCHANGED <<startColor, colorScheme, paletteCount, paletteCountInput>>
  /\ UNCHANGED <<customPalette, gradientStyle, edits>>
  /\ UNCHANGED <<coreVars, themeVars>>

\* onClick={() => setStartColor(color)} of a swatch
ClickSwatch ==
  /\ edits < MaxEdits
  /\ \E shown \in {palette} :
       \E index \in Swatches(shown) :
         Render(shown[index], colorScheme, paletteCount, paletteCountInput)
  /\ edits' = edits + 1
  /\ UNCHANGED <<customPalette, gradientStyle, gradientSteps>>
  /\ UNCHANGED <<coreVars, themeVars>>

\* the colour addColorToPalette derives from the last colour of the palette
AddedColor(lastColor) ==
  Const(hexToOklch(lastColor), LAMBDA oklchColor :
    oklchToHex([l |-> MathMax(Frac(2, 10), MathMin(Frac(9, 10), oklchColor.l)),
                c |-> MathMax(0, MathMin(Frac(3, 10), oklchColor.c)),
                h |-> JsRem(oklchColor.h + Deg(30), Deg(360))]))

\* newPalette, the copy of customPalette or basePalette, is the palette shown
addColorToPalette ==
  /\ edits < MaxEdits
  /\ \E newPalette \in {palette} :
       LET lastColor == IF Len(newPalette) > 0 THEN newPalette[Len(newPalette)] ELSE startColor
       IN  customPalette' = Append(newPalette, AddedColor(lastColor))
  /\ edits' = edits + 1
  /\ UNCHANGED <<startColor, colorScheme, paletteCount, paletteCountInput>>
  /\ UNCHANGED <<gradientStyle, gradientSteps>>
  /\ UNCHANGED <<coreVars, themeVars>>

\* Array.prototype.splice(index, 1) on a copy
Splice(colors, index) ==
  SubSeq(colors, 1, index - 1) \o SubSeq(colors, index + 1, Len(colors))

removeColorFromPalette ==
  /\ edits < MaxEdits
  /\ \E newPalette \in {palette} :
       /\ ShowsRemove(newPalette)
       /\ \E index \in Swatches(newPalette) : customPalette' = Splice(newPalette, index)
  /\ edits' = edits + 1
  /\ UNCHANGED <<startColor, colorScheme, paletteCount, paletteCountInput>>
  /\ UNCHANGED <<gradientStyle, gradientSteps>>
  /\ UNCHANGED <<coreVars, themeVars>>

updateColorInPalette ==
  /\ edits < MaxEdits
  /\ \E newPalette \in {palette} :
       \E index \in Swatches(newPalette), newColor \in PickerColors :
         customPalette' = [newPalette EXCEPT ![index] = newColor]
  /\ edits' = edits + 1
  /\ UNCHANGED <<startColor, colorScheme, paletteCount, paletteCountInput>>
  /\ UNCHANGED <<gradientStyle, gradientSteps>>
  /\ UNCHANGED <<coreVars, themeVars>>

\* the reset button is rendered only while customPalette is not empty
resetToBasePalette ==
  /\ Len(customPalette) > 0
  /\ customPalette' = <<>>
  /\ UNCHANGED <<startColor, colorScheme, paletteCount, paletteCountInput>>
  /\ UNCHANGED <<gradientStyle, gradientSteps, edits>>
  /\ UNCHANGED <<coreVars, themeVars>>

PageNext ==
  \/ ChangeColorPicker
  \/ ChangeColorText
  \/ SelectColorScheme
  \/ ChangePaletteCount
  \/ BlurPaletteCount
  \/ SelectGradientStyle
  \/ ChangeGradientSteps
  \/ ClickSwatch
  \/ addColorToPalette
  \/ removeColorFromPalette
  \/ updateColorInPalette
  \/ resetToBasePalette

PageSpec == Init /\ [][PageNext]_vars

(***************************************************************************)
(* ThemeSwitcher: the component, its effect and the timers of the browser. *)
(***************************************************************************)
\* clearTimeout(id): a timer that has not fired yet never will
clearTimeout_Ignored(table, id) == table

clearTimeout(table, id) ==
  [k \in DOMAIN table |->
     IF k = id /\ table[k].status = "pending"
     THEN [table[k] EXCEPT !.status = "cleared"]
     ELSE table[k]]

\* setTimeout(callback, 0) called by the effect of the given instance
setTimeout(table, owner) ==
  table @@ (Len(table) + 1 :> [status |-> "pending", owner |-> owner])

\* what the component returns: null until mounted, the button afterwards
RenderSwitcher(isMounted) == IF isMounted THEN "button" ELSE "null"

\* the component enters the tree: useState(false), first render, effect
MountSwitcher ==
  /\ ~attached
  /\ Len(timers) < MaxTimers
  /\ attached' = TRUE
  /\ instance' = instance + 1
  /\ mounted' = FALSE
  /\ timers' = setTimeout(timers, instance + 1)
  /\ timer' = Len(timers) + 1
  /\ rendered' = RenderSwitcher(FALSE)
  /\ UNCHANGED theme
  /\ UNCHANGED <<coreVars, pageVars>>

\* the callback of a pending timer runs: setMounted(true) reaches the instance
\* that started the timer if it is still in the tree
TimerFires ==
  /\ \E id \in DOMAIN timers :
       /\ timers[id].status = "pending"
       /\ timers' = [timers EXCEPT ![id].status = "fired"]
       /\ mounted' = IF attached /\ timers[id].owner = instance THEN TRUE ELSE mounted
  /\ rendered' = IF attached THEN RenderSwitcher(mounted') ELSE rendered
  /\ UNCHANGED <<attached, instance, timer, theme>>
  /\ UNCHANGED <<coreVars, pageVars>>

\* the component leaves the tree: the cleanup of the effect runs
UnmountSwitcher ==
  /\ attached
  /\ timers' = clearTimeout(timers, timer)
  /\ mounted' = FALSE
  /\ attached' = FALSE
  /\ rendered' = "none"
  /\ UNCHANGED <<instance, timer, theme>>
  /\ UNCHANGED <<coreVars, pageVars>>

\* strict mode runs the cleanup and the effect once more right after the
\* mount, on the same instance and its state
RerunEffect ==
  /\ attached
  /\ Len(timers) < MaxTimers
  /\ timers' = setTimeout(clearTimeout(timers, timer), instance)
  /\ timer' = Len(timers) + 1
  /\ mounted' = FALSE
  /\ rendered' = RenderSwitcher(FALSE)
  /\ UNCHANGED <<attached, instance, theme>>
  /\ UNCHANGED <<coreVars, pageVars>>

\* onClick={() => setTheme(theme === "dark" ? "light" : "dark")}
ClickSwitcher ==
  /\ rendered = "button"
  /\ theme' = IF theme = "dark" THEN "light" ELSE "dark"
  /\ UNCHANGED <<attached, instance, mounted, timer, timers, rendered>>
  /\ UNCHANGED <<coreVars, pageVars>>

ThemeNext ==
  \/ MountSwitcher
  \/ TimerFires
  \/ UnmountSwitcher
  \/ RerunEffect
  \/ ClickSwitcher

ThemeSpec == Init /\ [][ThemeNext]_vars

(***************************************************************************)
(* The texture: the grid drawTextureOnCanvas lays the squares out on and   *)
(* the dimensions the page shows.                                          *)
(***************************************************************************)
ExportScales == {1, 2, 4, 8, 16}
Margins == {0, 10, 50}
baseSquareSize == 200

squaresPerColor_AlwaysOne(style) == 1

\* const squaresPerColor = gradientStyle === "both" ? 2 : 1
squaresPerColor(style) == IF style = "both" THEN 2 ELSE 1

\* Math.ceil(Math.sqrt(n)) for an integer n >= 0
CeilSqrt(n) == CHOOSE c \in 0..n : c * c >= n /\ (c = 0 \/ (c - 1) * (c - 1) < n)
\* Math.ceil(a / b) for integers a >= 0 and b > 0; 0 / 0 is NaN
CeilDiv(a, b) == IF b = 0 THEN NaN ELSE (a + b - 1) \div b

exportDimensions(totalColors, style, scale, gap) ==
  LET padding == gap * scale
      squareSize == baseSquareSize * scale
      totalSquares == totalColors * squaresPerColor(style)
      cols == CeilSqrt(totalSquares)
      rows == CeilDiv(totalSquares, cols)
  IN  [width |-> cols * (squareSize + padding) + padding,
       height |-> rows * (squareSize + padding) + padding]

\* the square drawn for the given index of the grid
Square(squareIndex, cols, squareSize, padding) ==
  LET col == squareIndex % cols
      row == squareIndex \div cols
  IN  [index |-> squareIndex, col |-> col, row |-> row,
       x |-> padding + col * (squareSize + padding),
       y |-> padding + row * (squareSize + padding),
       size |-> squareSize]

\* the canvas and the squares filled on it, in the order they are drawn
drawTextureOnCanvas(totalColors, style, scale, gap) ==
  LET padding == gap * scale
      squareSize == baseSquareSize * scale
      totalSquares == totalColors * squaresPerColor(style)
      cols == CeilSqrt(totalSquares)
      rows == CeilDiv(totalSquares, cols)
  IN  [width |-> cols * (squareSize + padding) + padding,
       height |-> rows * (squareSize + padding) + padding,
       cols |-> cols,
       rows |-> rows,
       squares |->
         IF style = "both"
         THEN [k \in 1..(2 * totalColors) |->
                 LET colorIndex == (k - 1) \div 2
                     squareIndex == colorIndex * 2
                 IN  IF k % 2 = 1
                     THEN Square(squareIndex, cols, squareSize, padding)
                     ELSE Square(squareIndex + 1, cols, squareSize, padding)]
         ELSE [k \in 1..totalColors |-> Square(k - 1, cols, squareSize, padding)]]

\* the preview: drawTextureOnCanvas(canvas, 1)
CallGenerateTexture ==
  /\ pc = "idle"
  /\ \E count \in 1..MaxColors, style \in GradientStyles, gap \in Margins :
       /\ call' = [NoCall EXCEPT !.fn = "generateTexture", !.count = count,
                                 !.style = style, !.scale = 1, !.margin = gap]
       /\ ret' = [ok |-> TRUE, value |-> drawTextureOnCanvas(count, style, 1, gap), made |-> <<>>]
  /\ pc' = "returned"
  /\ UNCHANGED <<pageVars, themeVars>>

\* the export: drawTextureOnCanvas(tempCanvas, exportScale)
CallDownloadTexture ==
  /\ pc = "idle"
  /\ \E count \in 1..MaxColors, style \in GradientStyles, scale \in ExportScales, gap \in Margins :
       /\ call' = [NoCall EXCEPT !.fn = "downloadTexture", !.count = count,
                                 !.style = style, !.scale = scale, !.margin = gap]
       /\ ret' = [ok |-> TRUE, value |-> drawTextureOnCanvas(count, style, scale, gap), made |-> <<>>]
  /\ pc' = "returned"
  /\ UNCHANGED <<pageVars, themeVars>>

CallExportDimensions ==
  /\ pc = "idle"
  /\ \E count \in 1..MaxColors, style \in GradientStyles, scale \in ExportScales, gap \in Margins :
       /\ call' = [NoCall EXCEPT !.fn = "exportDimensions", !.count = count,
                                 !.style = style, !.scale = scale, !.margin = gap]
       /\ ret' = [ok |-> TRUE, value |-> exportDimensions(count, style, scale, gap), made |-> <<>>]
  /\ pc' = "returned"
  /\ UNCHANGED <<pageVars, themeVars>>

\* the drawing is done; the next one starts from scratch
TextureDone ==
  /\ pc = "returned"
  /\ pc' = "idle"
  /\ call' = NoCall
  /\ ret' = NoResult
  /\ UNCHANGED <<pageVars, themeVars>>

TextureNext ==
  \/ CallGenerateTexture
  \/ CallDownloadTexture
  \/ CallExportDimensions
  \/ TextureDone

TextureSpec == Init /\ [][TextureNext]_vars

(***************************************************************************)
(* Properties.                                                             *)
(***************************************************************************)
Returned(fn) == pc = "returned" /\ call.fn = fn
SteppedGradients ==
  {"generateValueGradient", "generateSaturationGradient", "generateCombinedGradient"}
ReturnedStepped == pc = "returned" /\ call.fn \in SteppedGradients
ReturnedPalette == pc = "returned" /\ call.fn \in {"generatePalette", "legacy generatePalette"}
\* the decoded colour the call started from
Base == hexToOklch(call.color)
\* the loop body of the stepped gradient that was called
StepOf(fn, oklchColor, progress) ==
  CASE fn = "generateValueGradient" -> ValueStep(oklchColor, progress)
    [] fn = "generateSaturationGradient" -> SaturationStep(oklchColor, progress)
    [] fn = "generateCombinedGradient" -> CombinedStep(oklchColor, progress)
\* the stepped gradient that corresponds to a sampler kind
SteppedFor(gradientType, color, steps) ==
  CASE gradientType = "value" -> generateValueGradient(color, steps)
    [] gradientType = "saturation" -> generateSaturationGradient(color, steps)
    [] gradientType = "both" -> generateCombinedGradient(color, steps)
SteppedByName(fn, color, steps) ==
  CASE fn = "generateValueGradient" -> generateValueGradient(color, steps)
    [] fn = "generateSaturationGradient" -> generateSaturationGradient(color, steps)
    [] fn = "generateCombinedGradient" -> generateCombinedGradient(color, steps)
\* exactly six hexadecimal digits after an optional '#'
IsSixDigitHex(s) == Len(StripHash(s)) = 6 /\ AllHexDigits(StripHash(s))
HasNaN(entry) == IsNaN(entry.l) \/ IsNaN(entry.c) \/ IsNaN(entry.h)

\* C1: for a valid seed, any scheme tag and any count >= 1, both palette
\* generators return exactly count elements.
C1_PaletteLength ==
  (ReturnedPalette /\ ret.ok /\ call.count >= 1) => Len(ret.value) = call.count

\* an unrecognized tag with more colours than the triadic offsets provide
C1_Witness ==
  /\ Returned("generatePalette") /\ ret.ok
  /\ call.scheme = "unrecognized" /\ call.count = 5
  /\ Len(ret.value) = 5

\* C2: for a valid seed and count >= 1, element 0 of the palette is the
\* input string itself, character for character.
C2_SeedPreserved ==
  (ReturnedPalette /\ ret.ok /\ call.count >= 1) => ret.value[1] = call.color

\* an upper-case seed without '#', which re-encoding would change
C2_Witness ==
  /\ Returned("generatePalette") /\ ret.ok /\ call.count >= 2
  /\ call.color = <<"3", "B", "8", "2", "F", "6">>
  /\ ret.value[1] = <<"3", "B", "8", "2", "F", "6">>
  /\ oklchToHex(Base) # call.color

\* C3: every colour the palette generator, the stepped gradients (steps >= 2)
\* and the sampler construct has a chroma at most getMaxChroma of the
\* lightness and hue it is emitted with.
C3_Generators ==
  {"generatePalette", "getSmoothGradientColor"} \cup SteppedGradients
C4_StrictSixDigits ==
  Returned("hexToOklch") => (ret.ok <=> IsSixDigitHex(call.color))

\* C5: given a string hexToOklch rejects, every generator fails with that
\* same error and returns nothing.
C5_Generators ==
  {"generatePalette", "getSmoothGradientColor"} \cup SteppedGradients
C5_ErrorPropagated ==
  (pc = "returned" /\ call.fn \in C5_Generators /\ ~Base.ok)
  => ret = Throw(InvalidHexColor)

C5_Witness ==
  /\ Returned("generatePalette") /\ ~Base.ok
  /\ call.count = 3 /\ call.scheme = "monochromatic"
  /\ ret = [ok |-> FALSE, error |-> "Invalid hex color"]

\* C6: for steps < 2 a stepped gradient either fails with InvalidParameter
\* or returns what it returns for steps = 2, and divides by no zero.
C6_StepsBelowTwo ==
  (ReturnedStepped /\ Base.ok /\ call.steps < 2)
  => /\ \/ ret = Throw("InvalidParameter")
        \/ ret = SteppedByName(call.fn, call.color, 2)
     /\ ret.ok => \A k \in 1..Len(ret.made) : ~HasNaN(ret.made[k])

\* C7: the sampler of kind "value" at index / (steps - 1) builds the colour
\* that generateValueGradient(colour, steps) builds at that index.
C7_SamplerMatchesValue ==
  (Returned("getSmoothGradientColor") /\ ret.ok /\ call.gradientType = "value")
  => /\ ret.made[1] = generateValueGradient(call.color, call.steps).made[call.index + 1]
     /\ ret.value = generateValueGradient(call.color, call.steps).value[call.index + 1]

\* an inner grid point of a chromatic colour
C7_Witness ==
  /\ Returned("getSmoothGradientColor") /\ ret.ok /\ call.gradientType = "value"
  /\ call.steps = 4 /\ call.index = 1 /\ Base.c > 0
  /\ ret.made[1].l > MathMax(Frac(1, 10), Base.l - Frac(3, 10))

\* C8: the same for the kinds "saturation" and "both" against
\* generateSaturationGradient and generateCombinedGradient.
C8_SamplerMatchesOthers ==
  (Returned("getSmoothGradientColor") /\ ret.ok /\ call.gradientType \in {"saturation", "both"})
  => ret.made[1] = SteppedFor(call.gradientType, call.color, call.steps).made[call.index + 1]

\* C9: for steps >= 2 the lightness of generateValueGradient does not
\* decrease with the index, as built and as decoded from the hex strings.
C9_ValueMonotonic ==
  (Returned("generateValueGradient") /\ ret.ok /\ call.steps >= 2)
  => \A k \in 1..(Len(ret.made) - 1) :
       /\ ret.made[k].l <= ret.made[k + 1].l
       /\ hexToOklch(ret.value[k]).l <= hexToOklch(ret.value[k + 1]).l

\* a gradient whose lightness really rises
C9_Witness ==
  /\ Returned("generateValueGradient") /\ ret.ok /\ call.steps = 4
  /\ ret.made[1].l < ret.made[4].l
  /\ hexToOklch(ret.value[1]).l < hexToOklch(ret.value[4]).l

\* the ends of the range each stepped gradient interpolates
C10_First(fn, base) ==
  CASE fn = "generateValueGradient" -> MathMax(Frac(1, 10), base.l - Frac(3, 10))
    [] fn = "generateSaturationGradient" ->
         MathMin(getMaxChroma(base.l, base.h), Mul(base.c, Frac(1, 10)))
    [] fn = "generateCombinedGradient" -> MathMax(Frac(15, 100), base.l - Frac(25, 100))
C10_Last(fn, base) ==
  CASE fn = "generateValueGradient" -> MathMin(Frac(98, 100), base.l + Frac(3, 10))
    [] fn = "generateSaturationGradient" -> getMaxChroma(base.l, base.h)
    [] fn = "generateCombinedGradient" -> MathMin(Frac(95, 100), base.l + Frac(25, 100))
C10_Varied(fn, entry) == IF fn = "generateSaturationGradient" THEN entry.c ELSE entry.l

\* C10: for steps >= 2 a stepped gradient has exactly steps elements,
\* element i is the loop body at progress i / (steps - 1), the first element
\* sits at the minimum of the range and the last at its maximum.
C10_InclusiveRange ==
  (ReturnedStepped /\ ret.ok /\ call.steps >= 2)
  => /\ Len(ret.value) = call.steps
     /\ \A k \in 1..Len(ret.made) :
          ret.made[k] = Entry(StepOf(call.fn, Base, Quotient(k - 1, call.steps - 1)))
     /\ C10_Varied(call.fn, ret.made[1]) = C10_First(call.fn, Base)
     /\ C10_Varied(call.fn, ret.made[call.steps]) = C10_Last(call.fn, Base)

C10_Witness ==
  /\ Returned("generateCombinedGradient") /\ ret.ok /\ call.steps = 3
  /\ Len(ret.value) = 3
  /\ ret.made[1].l < ret.made[2].l /\ ret.made[2].l < ret.made[3].l

\* the channels of a '#' and six digits string
Channels(hex) == CuloriParseHex(hex)
ChannelsClose(x, y) ==
  /\ Abs(x.r - y.r) <= 1
  /\ Abs(x.g - y.g) <= 1
  /\ Abs(x.b - y.b) <= 1

\* C11: decoding a six-digit hex string with hexToOklch and encoding the
\* result with oklchToHex gives back each 8-bit channel to within 1.
C11_RoundTrip ==
  Returned("oklchToHex")
  => /\ IsSixDigitHex(ret.value)
     /\ ChannelsClose(Channels(ret.value), call.rgb)

\* a chromatic colour that went through both conversions
C11_Witness ==
  /\ Returned("oklchToHex")
  /\ call.rgb = [r |-> 59, g |-> 130, b |-> 246]
  /\ ret.made[1].c > Frac(18, 100) /\ ret.made[1].h > Deg(259)
  /\ ret.value = <<"#", "3", "b", "8", "2", "f", "6">>

IsLowerHexDigit(ch) == \E k \in 1..Len(LowerDigits) : LowerDigits[k] = ch
\* '#' and six lowercase hexadecimal digits
IsCanonicalHex(s) ==
  /\ Len(s) = 7
  /\ s[1] = "#"
  /\ \A k \in 2..7 : IsLowerHexDigit(s[k])
\* the string lower-cased, with a '#' in front
Canonical(s) == <<"#">> \o ToLowerCase(StripHash(s))
RgbOf(result) == [r |-> result.r, g |-> result.g, b |-> result.b]

\* C12: rgbToHex of integer channels in 0..255 is '#' and six lowercase
\* zero-padded digits and hexToRgb reads the channels back; rgbToHex of
\* hexToRgb of a six-digit string is that string lower-cased with a '#'.
\* Both hold for the legacy pair and for the pair of the OKLCH module.
C12_Conversions ==
  /\ Returned("rgbToHex")
     => /\ IsCanonicalHex(ret.value)
        /\ hexToRgb(ret.value).ok
        /\ RgbOf(hexToRgb(ret.value)) = call.rgb
  /\ Returned("legacy rgbToHex")
     => /\ IsCanonicalHex(ret.value)
        /\ LegacyHexToRgb(ret.value).ok
        /\ RgbOf(LegacyHexToRgb(ret.value)) = call.rgb
  /\ (Returned("hexToRgb") /\ IsSixDigitHex(call.color))
     => /\ ret.ok
        /\ rgbToHex(RgbOf(ret)) = Canonical(call.color)
  /\ (Returned("legacy hexToRgb") /\ IsSixDigitHex(call.color))
     => /\ ret.ok
        /\ LegacyRgbToHex(RgbOf(ret)) = Canonical(call.color)

\* channels of one hexadecimal digit, which need the padding
C12_Witness ==
  /\ Returned("rgbToHex")
  /\ call.rgb = [r |-> 1, g |-> 15, b |-> 255]
  /\ ret.value = <<"#", "0", "1", "0", "f", "f", "f">>
  /\ hexToRgb(<<"#", "F", "f", "8", "0", "0", "0">>) = [ok |-> TRUE, r |-> 255, g |-> 128, b |-> 0]

\* C13: for a valid seed, any scheme and a count below 1, generatePalette
\* raises no error and returns the empty sequence or the seed alone.
C13_CountBelowOne ==
  (Returned("generatePalette") /\ Base.ok /\ call.count < 1)
  => /\ ret.ok
     /\ ret.value \in {<<>>, <<call.color>>}

\* a negative count with a scheme that has an offset whatever the count is
C13_Witness ==
  /\ Returned("generatePalette") /\ Base.ok
  /\ call.count = -1 /\ call.scheme = "complementary"
  /\ ret.ok /\ ret.value = <<>>

\* C14: for an achromatic source colour the chroma bound the generators
\* consult is 0 and every colour the palette generator, the stepped
\* gradients (steps >= 2) and the sampler build from it has chroma 0.
C14_Generators ==
  {"generatePalette", "getSmoothGradientColor"} \cup SteppedGradients
C14_GrayStaysGray ==
  (pc = "returned" /\ call.fn \in C14_Generators /\ ret.ok /\ Base.c = 0
     /\ (call.fn \in SteppedGradients => call.steps >= 2))
  => /\ getMaxChroma(Base.l, Base.h) = 0
     /\ \A k \in 1..Len(ret.made) : ~ret.made[k].seed => ret.made[k].c = 0

C16_Table(scheme, count) ==
  CASE scheme = "complementary" -> <<180>>
    [] scheme = "dichromatic" -> IF count > 1 THEN <<180>> ELSE <<>>
    [] scheme = "split-complementary" -> <<150, 210>>
    [] scheme = "triadic" ->
         IF count >= 3 THEN <<120, 240>> ELSE IF count = 2 THEN <<120>> ELSE <<>>
    [] scheme = "tetradic" ->
         IF count >= 4 THEN <<90, 180, 270>>
         ELSE IF count = 3 THEN <<90, 180>>
         ELSE IF count = 2 THEN <<90>> ELSE <<>>
C16_Tag(scheme) == IF scheme \in Schemes THEN scheme ELSE "triadic"
C16_Applied(scheme, count) ==
  LET offsets == C16_Table(C16_Tag(scheme), count)
  IN  SubSeq(offsets, 1, IF Len(offsets) < count - 1 THEN Len(offsets) ELSE count - 1)

\* C16: for a scheme other than monochromatic and analogous the elements
\* after the seed carry the hue offsets of the table, in order and at most
\* count - 1 of them, and an unrecognized tag gives the triadic palette.
C16_SchemeOffsets ==
  (Returned("generatePalette") /\ ret.ok /\ call.count >= 1
     /\ call.scheme \notin {"monochromatic", "analogous"})
  => /\ hueOffsets(call.scheme, call.count) = C16_Table(C16_Tag(call.scheme), call.count)
     /\ \A k \in 1..Len(C16_Applied(call.scheme, call.count)) :
          /\ ret.made[k + 1].h
               = (Base.h + Deg(C16_Applied(call.scheme, call.count)[k])) % Deg(360)
          /\ ret.made[k + 1].l = Base.l
     /\ call.scheme \notin Schemes
        => ret = generatePalette(call.color, "triadic", call.count)

\* a tetradic palette cut to three colours, and the hues it carries
C16_Witness ==
  /\ Returned("generatePalette") /\ ret.ok
  /\ call.scheme = "tetradic" /\ call.count = 3
  /\ Base.c > 0
  /\ ret.made[2].h = (Base.h + Deg(90)) % Deg(360)
  /\ ret.made[3].h = (Base.h + Deg(180)) % Deg(360)

\* offset k (from 0) of the analogous scheme
C17_Offset(count, k) == -(((count - 1) \div 2) * 30) + 30 * k

\* C17: for the analogous scheme and count >= 2 the generator applies
\* count - 1 offsets, offset k being -floor((count - 1) / 2) * 30 + 30 * k,
\* and the magnitudes of the first and the last differ by at most 30.
C17_AnalogousOffsets ==
  (Returned("generatePalette") /\ ret.ok /\ call.scheme = "analogous" /\ call.count >= 2)
  => /\ Len(hueOffsets("analogous", call.count)) = call.count - 1
     /\ Len(ret.made) = call.count
     /\ \A k \in 0..(call.count - 2) :
          /\ hueOffsets("analogous", call.count)[k + 1] = C17_Offset(call.count, k)
          /\ ret.made[k + 2].h
               = JsRem(Base.h + Deg(C17_Offset(call.count, k)) + Deg(360), Deg(360))
     /\ Abs(Abs(C17_Offset(call.count, 0)) - Abs(C17_Offset(call.count, call.count - 2))) <= 30

\* five colours: offsets -60, -30, 0 and 30 around a seed of hue above 60
C17_Witness ==
  /\ Returned("generatePalette") /\ ret.ok
  /\ call.scheme = "analogous" /\ call.count = 5
  /\ Base.h > Deg(60)
  /\ ret.made[2].h = Base.h - Deg(60)
  /\ ret.made[4].h = Base.h
  /\ ret.made[5].h = Base.h + Deg(30)

\* C18: for a seed hue in [0, 360), any scheme and any count >= 1, every
\* hue the palette generator computes lies in [0, 360).
C18_HueInRange ==
  (Returned("generatePalette") /\ ret.ok /\ call.count >= 1
     /\ Base.h >= 0 /\ Base.h < Deg(360))
  => \A k \in 1..Len(ret.made) :
       ~ret.made[k].seed => (ret.made[k].h >= 0 /\ ret.made[k].h < Deg(360))

\* the number of elements the offset loop pushes
C19_OffsetsApplied(scheme, count) ==
  IF Len(hueOffsets(scheme, count)) < count - 1 THEN Len(hueOffsets(scheme, count)) ELSE count - 1
\* element k continues element k - 1, as decoded from its hex string
C19_Continues(entry, previous) ==
  /\ entry.h = (previous.h + Deg(30)) % Deg(360)
  /\ entry.l = previous.l
  /\ entry.c = MathMin(getMaxChroma(previous.l, entry.h), previous.c)

\* C19: once the offsets of a non-monochromatic scheme are used up, each
\* further element has the hue of the element before it advanced by 30
\* modulo 360, that element's lightness, and its chroma clamped to the bound
\* at the new hue, until the palette has count elements.
C19_FillFromPrevious ==
  (Returned("generatePalette") /\ ret.ok /\ call.count >= 1
     /\ call.scheme # "monochromatic")
  => /\ Len(ret.made) = call.count
     /\ \A k \in (C19_OffsetsApplied(call.scheme, call.count) + 2)..call.count :
          C19_Continues(ret.made[k], hexToOklch(ret.made[k - 1].hex))

\* the ranges of the monochromatic scheme, and the values at progress i / (count - 1)
C20_Range(base) == MathMin(Frac(7, 10), MathMax(Frac(3, 10), Scale - 2 * base.l))
C20_MinL(base) == MathMax(Frac(15, 100), base.l - C20_Range(base) \div 2)
C20_MaxL(base) == MathMin(Frac(95, 100), base.l + C20_Range(base) \div 2)
C20_MinC(base) == Mul(base.c, Frac(3, 10))
C20_MaxC(base) == MathMin(getMaxChroma(base.l, base.h), Mul(base.c, Frac(15, 10)))
C20_Lightness(base, i, count) ==
  C20_MinL(base) + Mul(Quotient(i, count - 1), C20_MaxL(base) - C20_MinL(base))
C20_Candidate(base, i, count) ==
  C20_MinC(base)
    + Mul(Scale - 2 * Abs(Quotient(i, count - 1) - Frac(5, 10)), C20_MaxC(base) - C20_MinC(base))
\* equal up to the rounding of i * (1 / (count - 1)): half a unit of the
\* arithmetic for each of the at most count steps
C20_Close(x, y, count) == Abs(x - y) <= count

\* C20: for the monochromatic scheme and count >= 2, element i keeps the
\* seed's hue, has lightness minL + p * (maxL - minL) at p = i / (count - 1)
\* with 0.15 <= minL <= maxL <= 0.95, and the chroma candidate
\* minC + (1 - 2 * |p - 0.5|) * (maxC - minC), clamped to the bound; the
\* lightness does not decrease with i, the candidate is nowhere above its
\* value maxC at p = 0.5, and it is minC at p = 1.
C20_Monochromatic ==
  (Returned("generatePalette") /\ ret.ok /\ call.scheme = "monochromatic" /\ call.count >= 2)
  => /\ Len(ret.made) = call.count
     /\ Frac(15, 100) <= C20_MinL(Base)
     /\ C20_MinL(Base) <= C20_MaxL(Base)
     /\ C20_MaxL(Base) <= Frac(95, 100)
     /\ C20_MinC(Base) <= C20_MaxC(Base)
     /\ \A i \in 1..(call.count - 1) :
          /\ ret.made[i + 1].h = Base.h
          /\ C20_Close(ret.made[i + 1].l, C20_Lightness(Base, i, call.count), call.count)
          /\ C20_Close(ret.made[i + 1].c,
                       MathMax(0, MathMin(getMaxChroma(ret.made[i + 1].l, Base.h),
                                          C20_Candidate(Base, i, call.count))),
                       call.count)
          /\ C20_Candidate(Base, i, call.count) <= C20_MaxC(Base)
          /\ i > 1 => ret.made[i].l <= ret.made[i + 1].l
     /\ C20_Candidate(Base, call.count - 1, call.count) = C20_MinC(Base)

\* five shades of a chromatic seed: the middle one carries the largest candidate
C20_Witness ==
  /\ Returned("generatePalette") /\ ret.ok
  /\ call.scheme = "monochromatic" /\ call.count = 5
  /\ Base.c > Frac(18, 100)
  /\ ret.made[2].l < ret.made[3].l /\ ret.made[3].l < ret.made[5].l
  /\ C20_Candidate(Base, 2, 5) = C20_MaxC(Base)
  /\ C20_Candidate(Base, 1, 5) < C20_MaxC(Base)
  /\ ret.made[5].c = C20_MinC(Base)

\* C21: getMaxChroma is 0 for an undefined hue; for a defined hue it does not
\* depend on the hue, does not decrease with the lightness up to 0.4, is
\* largest on [0.4, 0.8] and does not increase with the lightness from 0.8.
C21_ChromaPolicy ==
  Returned("getMaxChroma")
  => /\ call.h = UndefinedHue => ret.value = 0
     /\ call.h # UndefinedHue
        => /\ \A h \in DefinedHues : getMaxChroma(call.l, h) = ret.value
           /\ \A l \in LightnessLevels :
                /\ (l <= call.l /\ call.l <= Frac(4, 10))
                   => getMaxChroma(l, call.h) <= ret.value
                /\ (Frac(4, 10) <= call.l /\ call.l <= Frac(8, 10))
                   => getMaxChroma(l, call.h) <= ret.value
                /\ (Frac(8, 10) <= call.l /\ call.l <= l)
                   => getMaxChroma(l, call.h) <= ret.value

\* a dark colour just below the first threshold, where the bound is smallest
C21_Witness ==
  /\ Returned("getMaxChroma")
  /\ call.h = Deg(120) /\ call.l = Frac(2, 10) - 1
  /\ ret.value = Frac(1, 10)
  /\ getMaxChroma(Frac(2, 10), call.h) = Frac(25, 100)
  /\ getMaxChroma(Frac(4, 10), call.h) = Frac(3, 10)
  /\ getMaxChroma(call.l, UndefinedHue) = 0

\* C22: for steps >= 2 the chroma of the last element of
\* generateSaturationGradient exceeds that of the first by at least 0.15.
C22_SpanAtLeast ==
  (Returned("generateSaturationGradient") /\ ret.ok /\ call.steps >= 2)
  => ret.made[call.steps].c - ret.made[1].c >= Frac(15, 100)

\* C23: for steps >= 2 the lightness and the chroma of the elements of
\* generateCombinedGradient do not decrease with the index.
C23_CombinedMonotonic ==
  (Returned("generateCombinedGradient") /\ ret.ok /\ call.steps >= 2)
  => \A k \in 1..(Len(ret.made) - 1) :
       /\ ret.made[k].l <= ret.made[k + 1].l
       /\ ret.made[k].c <= ret.made[k + 1].c

\* the band of the value gradient and its chroma candidate at progress p
C24_MinL(base) == MathMax(Frac(1, 10), base.l - Frac(3, 10))
C24_MaxL(base) == MathMin(Frac(98, 100), base.l + Frac(3, 10))
C24_Candidate(base, p) ==
  Mul(base.c, Scale - Mul(Frac(4, 10), Abs(p - Frac(5, 10))))
\* the progress at which element k of the returned sequence was built
C24_Progress(k) ==
  IF call.fn = "getSmoothGradientColor" THEN call.position
  ELSE Quotient(k - 1, call.steps - 1)

\* C24: the value gradient, stepped (steps >= 2) and sampled, keeps the hue,
\* emits every lightness inside [max(0.1, L - 0.3), min(0.98, L + 0.3)], a
\* band that contains the source lightness L, and takes the chroma
\* C * (1 - 0.4 * |p - 0.5|), clamped to the bound, at progress p.
C24_ValueBand ==
  (/\ pc = "returned" /\ ret.ok
   /\ \/ call.fn = "generateValueGradient" /\ call.steps >= 2
      \/ call.fn = "getSmoothGradientColor" /\ call.gradientType = "value")
  => /\ C24_MinL(Base) <= Base.l
     /\ Base.l <= C24_MaxL(Base)
     /\ \A k \in 1..Len(ret.made) :
          /\ C24_MinL(Base) <= ret.made[k].l
          /\ ret.made[k].l <= C24_MaxL(Base)
          /\ ret.made[k].h = Base.h
          /\ ret.made[k].c
               = MathMin(getMaxChroma(ret.made[k].l, Base.h),
                         C24_Candidate(Base, C24_Progress(k)))

\* C30: the hslToRgb of the OKLCH module returns, for every HSL triple with
\* h in [0, 360] and s, l in [0, 100], the RGB triple of the legacy hslToRgb.
C30_SameAsLegacy ==
  Returned("hslToRgb") => ret.value = LegacyHslToRgb(call.hsl)

\* '#' followed by six hexadecimal digits
C25_SixHexDigits(color) ==
  /\ Len(color) = 7
  /\ color[1] = "#"
  /\ \A k \in 2..7 : IsHexDigit(color[k])

\* C25: in every state of the swatches page the arguments it hands to the
\* core are in their domain: paletteCount is an integer from 2 to 20,
\* gradientSteps an integer from 2 to 10, and the start colour is '#' followed
\* by six hexadecimal digits.
C25_InDomain ==
  /\ paletteCount \in 2..20
  /\ gradientSteps \in 2..10
  /\ C25_SixHexDigits(startColor)

\* a count of 21 typed and refused, a count and a step count typed and taken,
\* a start colour typed in upper case, and the palette edited
C25_Witness ==
  /\ paletteCountInput = <<"2", "1">>
  /\ paletteCount = 2
  /\ gradientSteps = 2
  /\ startColor = <<"#", "3", "B", "8", "2", "F", "6">>
  /\ Len(customPalette) > 0

C27_Generated == generatePalette(startColor, colorScheme, paletteCount).value

\* a step taken while customPalette is not empty: a change of the start
\* colour, the scheme or the count keeps the displayed palette
C27_KeepsCustom ==
  (Len(customPalette) > 0
   /\ <<startColor, colorScheme, paletteCount>>' # <<startColor, colorScheme, paletteCount>>)
  => (Len(customPalette') > 0 /\ palette' = palette)

\* a step that empties customPalette changes nothing else: it is the reset
C27_OnlyReset ==
  (Len(customPalette) > 0 /\ Len(customPalette') = 0)
  => UNCHANGED <<startColor, colorScheme, paletteCount, paletteCountInput,
                 gradientStyle, gradientSteps, edits>>

C28_Total == call.count * (IF call.style = "both" THEN 2 ELSE 1)
C28_Cols == CHOOSE c \in 1..C28_Total : c * c >= C28_Total /\ (c - 1) * (c - 1) < C28_Total
C28_Rows == CHOOSE r \in 1..C28_Total : r * C28_Cols >= C28_Total /\ (r - 1) * C28_Cols < C28_Total
C28_Size == 200 * call.scale
C28_Pad == call.margin * call.scale
C28_Width == C28_Cols * (C28_Size + C28_Pad) + C28_Pad
C28_Height == C28_Rows * (C28_Size + C28_Pad) + C28_Pad

\* C28: for a palette of n >= 1 colours and every style, square k of the
\* total (n, or 2n for "both") is drawn at column k mod cols and row
\* floor(k / cols) with row < rows, no two squares share a cell, every square
\* lies inside the canvas of cols * (size + pad) + pad by
\* rows * (size + pad) + pad, and exportDimensions gives the size of the
\* canvas drawn at the export scale.
C28_GridLayout ==
  /\ (pc = "returned" /\ call.fn \in {"generateTexture", "downloadTexture"})
     => /\ Len(ret.value.squares) = C28_Total
        /\ ret.value.width = C28_Width
        /\ ret.value.height = C28_Height
        /\ \A k \in 0..(C28_Total - 1) :
             LET square == ret.value.squares[k + 1]
             IN  /\ square.col = k % C28_Cols
                 /\ square.row = k \div C28_Cols
                 /\ square.row < C28_Rows
                 /\ square.x = C28_Pad + square.col * (C28_Size + C28_Pad)
                 /\ square.y = C28_Pad + square.row * (C28_Size + C28_Pad)
                 /\ square.x >= 0 /\ square.x + square.size <= ret.value.width
                 /\ square.y >= 0 /\ square.y + square.size <= ret.value.height
        /\ \A j, k \in 1..C28_Total :
             j # k => <<ret.value.squares[j].col, ret.value.squares[j].row>>
                      # <<ret.value.squares[k].col, ret.value.squares[k].row>>
        /\ call.fn = "downloadTexture"
           => exportDimensions(call.count, call.style, call.scale, call.margin)
              = [width |-> ret.value.width, height |-> ret.value.height]
  /\ Returned("exportDimensions")
     => ret.value = [width |-> C28_Width, height |-> C28_Height]

\* three colours exported in style "both" at scale 2 with margin 10: six
\* squares on a grid of 3 by 2
C28_Witness ==
  /\ Returned("downloadTexture")
  /\ call.count = 3 /\ call.style = "both" /\ call.scale = 2 /\ call.margin = 10
  /\ Len(ret.value.squares) = 6
  /\ ret.value.cols = 3 /\ ret.value.rows = 2
  /\ ret.value.width = 1280 /\ ret.value.height = 860
  /\ ret.value.squares[6].x = 860 /\ ret.value.squares[6].y = 440

\* mounted turns true only when the pending timer of the last effect fires
C29_OnlyByTimer ==
  (~mounted /\ mounted')
  => /\ attached
     /\ timer \in DOMAIN timers
     /\ timers[timer].status = "pending"
     /\ timers'[timer].status = "fired"

\* leaving the tree before the timer fired cancels it and leaves mounted false
C29_CancelledOnUnmount ==
  (attached /\ ~attached' /\ timers[timer].status = "pending")
  => (timers'[timer].status = "cleared" /\ ~mounted')

\* a cancelled timer stays cancelled, and outside the tree mounted stays false
C29_NeverAfterwards ==
  /\ \A id \in DOMAIN timers : timers[id].status = "cleared" => timers'[id].status = "cleared"
  /\ (~attached /\ ~attached') => ~mounted'

\* C29: mounted becomes true only through the zero-delay timer started by the
\* effect; an unmount before the timer fires cancels the timer, which never
\* sets mounted afterwards; the button is rendered exactly when mounted is
\* true, and nothing before.
C29_MountedByTimer ==
  /\ [](rendered = "button" <=> mounted)
  /\ [][C29_OnlyByTimer /\ C29_CancelledOnUnmount /\ C29_NeverAfterwards]_vars

\* the first timer was cancelled by an unmount, the second one fired after the
\* next mount, and the button was clicked
C29_Witness ==
  /\ Len(timers) = 2
  /\ timers[1].status = "cleared"
  /\ timers[2].status = "fired"
  /\ instance = 2
  /\ mounted /\ rendered = "button"
  /\ theme = "dark"

====
